---- MODULE Spec2Model ----
(***************************************************************************)
(* A model of the HomeTom controller's scene automation engine: the scene  *)
(* executor (domain/scene_engine/executor.py), the condition evaluator     *)
(* (conditions.py), the cron scheduler (scheduler.py), the in-memory state *)
(* manager, the event bus, and the two services that drive them            *)
(* (application/scene_service.py, application/device_service.py).          *)
(*                                                                         *)
(* Coroutines are modelled at the granularity of their real suspension     *)
(* points: the repository read of trigger_scene, the HTTP call of a        *)
(* device_control action and the sleep of a delay action.  Code between    *)
(* two suspension points runs atomically on the asyncio event loop.        *)
(***************************************************************************)
EXTENDS Integers, Sequences, FiniteSets, Bags, TLC

\* ------------------------------------------------------------------ bounds
MaxRuns == 2
MaxDeviceOps == 1
MaxTime == 2
MaxSchedOps == 4
MaxClients == 2
MaxStoreOps == 3
MaxSubscriptions == 2

\* ------------------------------------------------------------------ values
\* A JSON value is a typed scalar; strings are ranked in lexicographic order
\* ("closed" = 0 < "open" = 1), so that Python's native comparison can be
\* computed on the rank.
Str(n) == [t |-> "str", v |-> n]
Num(n) == [t |-> "num", v |-> n]
None == [t |-> "none", v |-> 0]
CLOSED == Str(0)
OPEN == Str(1)

Devices == {"d1", "d2"}
SceneIds == {"s1", "s2"}
\* dict.get / dict[...] on a key the dict does not hold
Missing == "missing"

\* DeviceState (domain/entities/device.py): state and attributes; the one
\* attribute of the model is brightness.
DeviceState(s, b) == [state |-> s, attributes |-> [brightness |-> b]]
NoState == [state |-> None, attributes |-> [brightness |-> None]]
StateValues == {CLOSED, OPEN}

\* ------------------------------------------------------- scene definitions
Cond(op, attr, val) == [operator |-> op, attribute |-> attr, value |-> val]
\* the dict holds no "condition" key
NoCond == Cond(Missing, Missing, None)

DeviceStateTrigger(d, c) == [type |-> "device_state", device_id |-> d, condition |-> c, cron |-> <<>>]
TimeTrigger(cron) == [type |-> "time", device_id |-> Missing, condition |-> NoCond, cron |-> cron]
ManualTrigger == [type |-> "manual", device_id |-> Missing, condition |-> NoCond, cron |-> <<>>]

\* a condition item is a dict; a key the dict does not hold is Missing (NoCond
\* for "condition", no items for "items")
ConditionItem(type, d, c, start, end, op, items) ==
    [type |-> type, device_id |-> d, condition |-> c, start |-> start, end |-> end,
     operator |-> op, items |-> items]
DeviceStateCondition(d, c) == ConditionItem("device_state", d, c, Missing, Missing, Missing, <<>>)
\* {"type": "time_range", "start": "HH:MM", "end": "HH:MM"}; "HH:MM" is <<HH, MM>>
TimeRangeCondition(start, end) == ConditionItem("time_range", Missing, NoCond, start, end, Missing, <<>>)
UnknownCondition == ConditionItem("bogus", Missing, NoCond, Missing, Missing, Missing, <<>>)
\* a group as an item of a group: {"operator": ..., "items": [...]}, no "type"
NestedGroup(op, items) == ConditionItem(Missing, Missing, NoCond, Missing, Missing, op, items)
ConditionGroup(op, items) == [operator |-> op, items |-> items]
\* SceneDefinition.conditions = None
NoConditions == [operator |-> "none", items |-> <<>>]

DeviceControlAction(d, cmd) == [type |-> "device_control", device_id |-> d, command |-> cmd, seconds |-> 0]
DelayAction(s) == [type |-> "delay", device_id |-> Missing, command |-> None, seconds |-> s]
UnknownAction == [type |-> "bogus", device_id |-> Missing, command |-> None, seconds |-> 0]

SceneDefinition(tr, co, ac) == [triggers |-> tr, conditions |-> co, actions |-> ac]
Scene(id, def, active) == [id |-> id, definition |-> def, is_active |-> active]
NoScene == Scene(Missing, SceneDefinition(<<>>, NoConditions, <<>>), FALSE)

\* cron expressions, as the list of fields that str.split() gives
CronMinute0 == <<"0", "*", "*", "*", "*">>
CronMinute1 == <<"1", "*", "*", "*", "*">>
CronFourFields == <<"0", "*", "*", "*">>
CronBadValue == <<"x", "*", "*", "*", "*">>

\* The definitions a client can submit and SceneParser.parse accepts
\* (pydantic checks only that triggers and actions are lists of dicts and that
\* conditions, when present, is {operator: and|or, items: list of dicts}).
DefOneControl == SceneDefinition(<<ManualTrigger>>, NoConditions,
                     <<DeviceControlAction("d1", OPEN)>>)
DefGuarded == SceneDefinition(<<DeviceStateTrigger("d1", Cond("eq", "state", OPEN))>>,
                     ConditionGroup("and", <<DeviceStateCondition("d1", Cond("eq", "state", OPEN))>>),
                     <<DeviceControlAction("d1", CLOSED), DelayAction(1), DeviceControlAction("d2", OPEN)>>)
Definitions ==
    LET
        DefEmptyOr == SceneDefinition(<<>>, ConditionGroup("or", <<>>),
                             <<DeviceControlAction("d2", OPEN)>>)
        DefUnknownAction == SceneDefinition(<<ManualTrigger>>, NoConditions,
                             <<DeviceControlAction("d2", CLOSED), UnknownAction, DeviceControlAction("d1", OPEN)>>)
        DefBadTrigger == SceneDefinition(<<DeviceStateTrigger(Missing, NoCond)>>, NoConditions,
                             <<DeviceControlAction("d1", OPEN)>>)
        DefUnknownCondition == SceneDefinition(<<>>, ConditionGroup("and", <<UnknownCondition>>),
                             <<DeviceControlAction("d1", OPEN)>>)
    IN  {DefOneControl, DefGuarded, DefEmptyOr, DefUnknownAction,
         DefBadTrigger, DefUnknownCondition}

\* ------------------------------------------------------------------ state
VARIABLES
    repo,          \* SceneRepository: scene id -> persisted Scene
    states,        \* StateManager._states: device id -> DeviceState (cached devices only)
    halState,      \* the HAL's own state of each device
    handlers,      \* EventBus._handlers: topic -> list of handlers
    tasks,         \* handler tasks created by publish and not yet run (a bag)
    runs,          \* coroutines of the scene service (trigger_scene; create, update,
                   \* delete, activate): run id -> local variables
    deviceOps,     \* number of DeviceService calls made so far
    changes,       \* history: the device_state_changed events of a changed cached state
    running,       \* AsyncIOScheduler.running
    pendingJobs,   \* AsyncIOScheduler._pending_jobs (jobs added while stopped)
    jobStore,      \* MemoryJobStore: job id -> job
    jobMap,        \* SceneScheduler._job_map: scene id -> job id
    now,           \* wall clock, in minutes
    fired,         \* history: the bag of callback firings (scene, cron, instant)
    calls,         \* fired coroutine callbacks whose task has not started yet (a bag)
    schedOps,      \* number of scheduler calls made so far
    lastOp,        \* history: the last call made on the scheduler
    request,       \* a call of SceneParser.parse or ConditionEvaluator.evaluate: its arguments
    response,      \* what that call returned or raised
    lock,          \* StateManager._lock: the client that holds it, or NoClient
    storeCalls,    \* tasks that use the StateManager: client -> its position and device
    snapshot,      \* the dict the last get_all_states call returned to its caller
    lastStore,     \* history: the last StateManager call that ran its body
    boot           \* startup_handler: its position and what it did so far

execVars == <<repo, states, halState, handlers, tasks, runs, deviceOps, changes>>
schedVars == <<running, pendingJobs, jobStore, jobMap, now, fired, calls, schedOps, lastOp>>
pureVars == <<request, response>>
storeVars == <<lock, storeCalls, snapshot, lastStore>>
vars == <<repo, states, halState, handlers, tasks, runs, deviceOps, changes,
          running, pendingJobs, jobStore, jobMap, now, fired, calls, schedOps, lastOp,
          request, response, lock, storeCalls, snapshot, lastStore, boot>>

RunIds == 1..MaxRuns

\* ------------------------------------------------------------ event bus
\* EventTypes
DEVICE_STATE_CHANGED == "device_state_changed"
SCENE_TRIGGERED == "scene_triggered"
SCENE_COMPLETED == "scene_completed"
SCENE_FAILED == "scene_failed"
Topics == {DEVICE_STATE_CHANGED, SCENE_TRIGGERED, SCENE_COMPLETED, SCENE_FAILED}

\* One entry of a run's log, the history of what the run did.  kind is one of
\*   "command"   HALClient.control_device was called for action idx
\*   "response"  that HAL call ended with outcome
\*   "sleep"     the delay action idx started; "wake": it ended
\*   "set"       StateManager.set_state stored a state for device_id
\*   "publish"   EventBus.publish(topic, ...)
\* A "publish" entry is also the event handed to the handlers; run is 0 and
\* state is the new state for an event of the device service.
Entry(kind, run, sid, dev, topic, idx, outcome) ==
    [kind |-> kind, run |-> run, scene_id |-> sid, device_id |-> dev,
     topic |-> topic, idx |-> idx, outcome |-> outcome, state |-> NoState]

\* setup_websocket_events: the WebSocket layer subscribes one handler to each
\* of the four topics it forwards.
WsHandlers == [t \in Topics |-> <<"ws">>]

\* EventBus.__init__: no topic has a handler
NoHandlers == [t \in Topics |-> <<>>]
\* the handlers of the model: the WebSocket forwarder and one whose body raises
HandlerNames == {"ws", "bad"}

\* A handler task: handler(data), created by asyncio.create_task
Task(handler, ev) == [handler |-> handler, event |-> ev]


\* publish that stops after the first handler of the topic
PublishToFirst(h, topic, ev) ==
    IF h[topic] = <<>> THEN EmptyBag ELSE SetToBag({Task(h[topic][1], ev)})

\* EventBus.publish: one task per subscribed handler (a handler subscribed
\* twice gets two), none awaited.  The tasks run in no guaranteed order.
PublishTasks(h, topic, ev) ==
    LET hs == h[topic]
        \* the bag with n copies of x
        Copies(x, n) == IF n = 0 THEN EmptyBag ELSE [y \in {x} |-> n]
        Count(x) == Cardinality({i \in 1..Len(hs) : hs[i] = x})
        Sum[S \in SUBSET {hs[i] : i \in 1..Len(hs)}] ==
            IF S = {} THEN EmptyBag
            ELSE LET x == CHOOSE y \in S : TRUE
                 IN  Copies(Task(x, ev), Count(x)) (+) Sum[S \ {x}]
    IN  Sum[{hs[i] : i \in 1..Len(hs)}]

\* -------------------------------------------------- condition evaluator
\* DeviceStateCondition._compare; ordering operators raise TypeError when the
\* operands are of different types.
Compare(actual, expected, operator) ==
    CASE operator = "eq" -> IF actual = expected THEN "true" ELSE "false"
      [] operator = "ne" -> IF actual # expected THEN "true" ELSE "false"
      [] operator \in {"gt", "ge", "lt", "le"} ->
            IF actual.t # expected.t THEN "error"
            ELSE IF CASE operator = "gt" -> actual.v > expected.v
                      [] operator = "ge" -> actual.v >= expected.v
                      [] operator = "lt" -> actual.v < expected.v
                      [] OTHER -> actual.v <= expected.v
                 THEN "true" ELSE "false"
      [] OTHER -> "false"

\* context["device_states"].get(device_id)
ContextState(ctx, d) == IF d \in DOMAIN ctx THEN ctx[d] ELSE NoState

\* DeviceStateCondition.evaluate
EvaluateDeviceState(item, ctx) ==
    LET device_state == ContextState(ctx, item.device_id)
        actual_value == IF item.condition.attribute = "state"
                        THEN device_state.state
                        ELSE device_state.attributes.brightness
    IN  IF device_state = NoState THEN "false"
        ELSE IF actual_value = None THEN "false"
        ELSE Compare(actual_value, item.condition.value, item.condition.operator)

\* datetime.strptime(text, "%H:%M").time() and datetime.now().time(), as the
\* seconds since midnight that Python's comparison of time objects ranks by
Strptime(text) == (text[1] * 60 + text[2]) * 60
TimeOf(clock) == (clock[1] * 60 + clock[2]) * 60 + clock[3]

\* TimeRangeCondition.evaluate without the branch for a range that spans
\* midnight
EvaluateTimeRangeNoWrap(item, clock) ==
    LET start == Strptime(item.start)
        end == Strptime(item.end)
        now_ == TimeOf(clock)
    IN  IF start <= now_ /\ now_ <= end THEN "true" ELSE "false"

\* TimeRangeCondition.evaluate
EvaluateTimeRange(item, clock) ==
    LET start == Strptime(item.start)
        end == Strptime(item.end)
        now_ == TimeOf(clock)
    IN  IF start <= end
        THEN (IF start <= now_ /\ now_ <= end THEN "true" ELSE "false")
        ELSE (IF now_ >= start \/ now_ <= end THEN "true" ELSE "false")

\* ConditionFactory._registry
Registry == {"device_state", "time_range"}

\* ConditionFactory.create followed by Condition.evaluate: a type tag that is
\* not registered (a nested group has none) raises ValueError, an item without
\* a key its type needs raises KeyError.
EvaluateItem(item, ctx, clock) ==
    IF item.type \notin Registry THEN "error"
    ELSE IF item.type = "device_state"
    THEN (IF item.device_id = Missing \/ item.condition = NoCond THEN "error"
          ELSE EvaluateDeviceState(item, ctx))
    ELSE (IF item.start = Missing \/ item.end = Missing THEN "error"
          ELSE EvaluateTimeRange(item, clock))

\* ConditionGroup.evaluate: every item is evaluated (no short circuit), then
\* all() or any() is taken.
EvaluateGroup(group, ctx, clock) ==
    LET results == [i \in 1..Len(group.items) |-> EvaluateItem(group.items[i], ctx, clock)]
        n == Len(group.items)
    IN  IF \E i \in 1..n : results[i] = "error" THEN "error"
        ELSE IF group.operator = "and"
             THEN (IF \A i \in 1..n : results[i] = "true" THEN "true" ELSE "false")
        ELSE IF group.operator = "or"
             THEN (IF \E i \in 1..n : results[i] = "true" THEN "true" ELSE "false")
        ELSE "false"

\* ConditionEvaluator.evaluate: None is true, a dict with "operator" and
\* "items" is a group, any other dict goes to the factory
Evaluate(condition_data, ctx, clock) ==
    IF condition_data = NoConditions THEN "true"
    ELSE IF condition_data.operator # Missing
    THEN EvaluateGroup(condition_data, ctx, clock)
    ELSE EvaluateItem(condition_data, ctx, clock)

\* datetime.now().time() at the instant `t` of the model's clock (minutes)
TimeOfDay(t) == <<(t \div 60) % 24, t % 60, 0>>

\* -------------------------------------------------------------- executor
\* ExecutionResult.message / str(exception), by its parts
Message(kind, dev, n) == [kind |-> kind, device_id |-> dev, n |-> n]

IdleRun == [pc |-> "idle", scene_id |-> Missing, by |-> "", scene |-> NoScene, idx |-> 0,
            status |-> "", message |-> Message("", Missing, 0), condition_met |-> "", log |-> <<>>]

\* SceneExecutor._extract_device_ids: x["device_id"] raises KeyError when a
\* device_state trigger or condition, or a device_control action, has none.
ExtractDeviceIds(scene) ==
    LET def == scene.definition
        tr == {def.triggers[i].device_id : i \in {j \in 1..Len(def.triggers) : def.triggers[j].type = "device_state"}}
        co == {def.conditions.items[i].device_id :
                  i \in {j \in 1..Len(def.conditions.items) : def.conditions.items[j].type = "device_state"}}
        ac == {def.actions[i].device_id : i \in {j \in 1..Len(def.actions) : def.actions[j].type = "device_control"}}
    IN  [ok |-> Missing \notin (tr \cup co \cup ac), ids |-> tr \cup co \cup ac]

\* SceneExecutor._prepare_context: the cached state of every referenced
\* device; a device with no cached state is left out.
PrepareContext(scene, st) ==
    LET ex == ExtractDeviceIds(scene)
    IN  [ok |-> ex.ok,
         device_states |-> [d \in (IF ex.ok THEN ex.ids \cap DOMAIN st ELSE {}) |-> st[d]]]

\* mutant: execute_scene without its except clause, the exception escapes
FailedEscapes(run, msg) == [run EXCEPT !.pc = "done", !.status = "raised", !.message = msg]

\* the except clause of execute_scene: any exception becomes status=failed
Failed(run, msg) == [run EXCEPT !.pc = "done", !.status = "failed", !.message = msg]

\* the result of one step of the executor: the run's new local state and what
\* the step added to the history
Step(run, log) == [run |-> run, log |-> log]

\* SceneExecutor._execute_device_control, up to the await of the HAL call
ExecuteDeviceControl(run, r, i) ==
    LET action == run.scene.definition.actions[i]
    IN  Step([run EXCEPT !.pc = "hal", !.idx = i],
             <<Entry("command", r, run.scene_id, action.device_id, "", i, "")>>)

\* SceneExecutor._execute_delay, up to the await of asyncio.sleep
ExecuteDelay(run, r, i) ==
    Step([run EXCEPT !.pc = "sleep", !.idx = i],
         <<Entry("sleep", r, run.scene_id, Missing, "", i, "")>>)

\* mutant: the loop skips an action
NextActionSkips(i) == i + 2

\* the index of the action the for loop of execute_scene takes after action i
NextAction(i) == i + 1

\* one iteration of the for loop of execute_scene (_execute_action), or the
\* return after the loop when no action is left
StartAction(run, r, i) ==
    LET actions == run.scene.definition.actions
    IN  IF i > Len(actions)
        THEN Step([run EXCEPT !.pc = "done", !.status = "success",
                              !.message = Message("Executed actions", Missing, Len(actions))], <<>>)
        ELSE IF actions[i].type = "device_control" THEN ExecuteDeviceControl(run, r, i)
        ELSE IF actions[i].type = "delay" THEN ExecuteDelay(run, r, i)
        ELSE Step(Failed([run EXCEPT !.idx = i], Message("Unknown action type", Missing, 0)), <<>>)

\* mutant: the executor does not look at condition_met
AfterEvaluateNoGate(run, r, met) ==
    IF met = "error"
    THEN Step(Failed(run, Message("Condition error", Missing, 0)), <<>>)
    ELSE StartAction(run, r, 1)

\* execute_scene after the evaluator answered: skip, fail, or start the actions
AfterEvaluate(run, r, met) ==
    IF met = "error"
    THEN Step(Failed(run, Message("Condition error", Missing, 0)), <<>>)
    ELSE IF met = "false"
    THEN Step([run EXCEPT !.pc = "done", !.status = "skipped",
                          !.message = Message("Conditions not met", Missing, 0)], <<>>)
    ELSE StartAction(run, r, 1)

\* execute_scene from its first line to its first suspension
ExecuteScene(run, r, st) ==
    LET context == PrepareContext(run.scene, st)
        met == Evaluate(run.scene.definition.conditions, context.device_states, TimeOfDay(now))
    IN  IF ~context.ok
        THEN Step(Failed(run, Message("KeyError device_id", Missing, 0)), <<>>)
        ELSE AfterEvaluate([run EXCEPT !.condition_met = met], r, met)

\* what HALClient.control_device can do: answer success=true, answer
\* success=false, raise HALCommunicationError before the HAL acted ("error"),
\* or time out after the HAL acted ("timeout", also HALCommunicationError).
HalOutcomes == {"ok", "rejected", "error", "timeout"}
HalRaises(outcome) == outcome \in {"error", "timeout"}
HalApplies(outcome) == outcome \in {"ok", "timeout"}

\* the HAL applying a command: the device takes the commanded state
ApplyCommand(hs, d, cmd) == [hs EXCEPT ![d] = DeviceState(cmd, hs[d].attributes.brightness)]

\* mutant: _execute_device_control swallows the exception of the HAL call
OnHalResponseSwallows(run, r, outcome) == StartAction(run, r, NextAction(run.idx))

\* _execute_device_control after the HAL call ended, and the loop going on
OnHalResponse(run, r, outcome) ==
    IF HalRaises(outcome)
    THEN Step(Failed(run, Message("Failed to control device",
                                  run.scene.definition.actions[run.idx].device_id, 0)), <<>>)
    ELSE StartAction(run, r, NextAction(run.idx))

\* --------------------------------------------------------- scene service
\* the next free coroutine slot
FreeRun(r) == runs[r].pc = "idle" /\ \A q \in 1..(r - 1) : runs[q].pc # "idle"

\* mutant: trigger_scene that reports a skipped execution as a failure
OutcomeTopicOfSkipped(status) ==
    IF status = "success" THEN SCENE_COMPLETED
    ELSE IF status \in {"failed", "skipped"} THEN SCENE_FAILED
    ELSE ""

\* the event trigger_scene publishes for the executor's result
OutcomeTopic(status) ==
    IF status = "success" THEN SCENE_COMPLETED
    ELSE IF status = "failed" THEN SCENE_FAILED
    ELSE ""

\* trigger_scene after execute_scene returned: publish completed or failed
PublishOutcome(run, r) ==
    IF run.pc = "done" /\ OutcomeTopic(run.status) # ""
    THEN <<Entry("publish", r, run.scene_id, Missing, OutcomeTopic(run.status), 0, run.status)>>
    ELSE <<>>

\* the handler tasks EventBus.publish creates for a list of published events
TasksOf(h, pubs) ==
    IF pubs = <<>> THEN EmptyBag
    ELSE PublishTasks(h, pubs[1].topic, pubs[1])
         (+) (IF Len(pubs) > 1 THEN PublishTasks(h, pubs[2].topic, pubs[2]) ELSE EmptyBag)

\* a step of a run takes effect: its locals, its log, the handler tasks
Commit(r, step, before) ==
    LET pubs == before \o PublishOutcome(step.run, r)
    IN  /\ runs' = [runs EXCEPT ![r] = [step.run EXCEPT
                         !.log = @ \o before \o step.log \o PublishOutcome(step.run, r)]]
        /\ tasks' = tasks (+) TasksOf(handlers, pubs)

\* trigger_scene that refuses a scene one of whose executions is in progress
TriggerSceneCallExclusive(r, sid, by) ==
    /\ FreeRun(r)
    /\ \A q \in RunIds : runs[q].scene_id = sid => runs[q].pc \in {"idle", "done"}
    /\ runs' = [runs EXCEPT ![r] = [IdleRun EXCEPT !.pc = "loading", !.scene_id = sid, !.by = by]]
    /\ UNCHANGED <<repo, states, halState, handlers, tasks, deviceOps, changes>>
    /\ UNCHANGED <<schedVars, pureVars, storeVars, boot>>

\* SceneService.trigger_scene is called (API route: by = "manual"; scheduler
\* callback: by = "auto") and awaits scene_repo.get_by_id.
TriggerSceneCall(r, sid, by) ==
    /\ FreeRun(r)
    /\ runs' = [runs EXCEPT ![r] = [IdleRun EXCEPT !.pc = "loading", !.scene_id = sid, !.by = by]]
    /\ UNCHANGED <<repo, states, halState, handlers, tasks, deviceOps, changes>>
    /\ UNCHANGED <<schedVars, pureVars, storeVars, boot>>

\* trigger_scene from the repository's answer to the first suspension of
\* execute_scene (or to its return).
TriggerSceneLoaded(r) ==
    /\ runs[r].pc = "loading"
    /\ LET scene == repo[runs[r].scene_id]
           run == [runs[r] EXCEPT !.scene = scene]
       IN  IF scene = NoScene
           THEN Commit(r, Step([run EXCEPT !.pc = "done", !.status = "raised",
                                           !.message = Message("Scene not found", Missing, 0)], <<>>), <<>>)
           ELSE IF ~scene.is_active
           THEN Commit(r, Step([run EXCEPT !.pc = "done", !.status = "skipped",
                                           !.message = Message("Scene is not active", Missing, 0)], <<>>), <<>>)
           ELSE Commit(r, ExecuteScene(run, r, states),
                       <<Entry("publish", r, run.scene_id, Missing, SCENE_TRIGGERED, 0, run.by)>>)
    /\ UNCHANGED <<repo, states, halState, handlers, deviceOps, changes>>
    /\ UNCHANGED <<schedVars, pureVars, storeVars, boot>>

\* the HAL call of the device_control action in progress ends
HalResponse(r, outcome) ==
    /\ runs[r].pc = "hal"
    /\ LET action == runs[r].scene.definition.actions[runs[r].idx]
           step == OnHalResponse(runs[r], r, outcome)
       IN  /\ halState' = IF HalApplies(outcome)
                          THEN ApplyCommand(halState, action.device_id, action.command)
                          ELSE halState
           /\ Commit(r, Step(step.run,
                             <<Entry("response", r, runs[r].scene_id, action.device_id, "",
                                     runs[r].idx, outcome)>> \o step.log), <<>>)
    /\ UNCHANGED <<repo, states, handlers, deviceOps, changes>>
    /\ UNCHANGED <<schedVars, pureVars, storeVars, boot>>

\* the asyncio.sleep of the delay action in progress ends
DelayElapsed(r) ==
    /\ runs[r].pc = "sleep"
    /\ LET step == StartAction(runs[r], r, NextAction(runs[r].idx))
       IN  Commit(r, Step(step.run,
                          <<Entry("wake", r, runs[r].scene_id, Missing, "", runs[r].idx, "")>>
                          \o step.log), <<>>)
    /\ UNCHANGED <<repo, states, halState, handlers, deviceOps, changes>>
    /\ UNCHANGED <<schedVars, pureVars, storeVars, boot>>

\* EventBus.subscribe: the handler is appended to the list of the topic
Subscribe(topic, handler) ==
    /\ Len(handlers[SCENE_TRIGGERED]) + Len(handlers[SCENE_COMPLETED])
          + Len(handlers[SCENE_FAILED]) + Len(handlers[DEVICE_STATE_CHANGED]) < MaxSubscriptions
    /\ handlers' = [handlers EXCEPT ![topic] = Append(@, handler)]
    /\ UNCHANGED <<repo, states, halState, tasks, runs, deviceOps, changes>>
    /\ UNCHANGED <<schedVars, pureVars, storeVars, boot>>

\* mutant: a remove that takes out every occurrence
ListRemoveAll(list, x) ==
    [ok |-> \E i \in 1..Len(list) : list[i] = x, list |-> SelectSeq(list, LAMBDA y : y # x)]

\* list.remove(x): the first occurrence of x is taken out; ValueError
\* (ok = FALSE) when the list does not hold x
ListRemove(list, x) ==
    LET hits == {i \in 1..Len(list) : list[i] = x}
    IN  IF hits = {} THEN [ok |-> FALSE, list |-> list]
        ELSE LET first == CHOOSE i \in hits : \A j \in hits : i <= j
             IN  [ok |-> TRUE, list |-> SubSeq(list, 1, first - 1) \o SubSeq(list, first + 1, Len(list))]

\* EventBus.unsubscribe: the handler is removed from the list of the topic;
\* the ValueError of a handler that is not in the list is passed over, and
\* a topic nobody subscribed to has no list
Unsubscribe(topic, handler) ==
    /\ handlers' = [handlers EXCEPT ![topic] = ListRemove(@, handler).list]
    /\ UNCHANGED <<repo, states, halState, tasks, runs, deviceOps, changes>>
    /\ UNCHANGED <<schedVars, pureVars, storeVars, boot>>

\* a handler task whose fault ends the other tasks of its event
RunHandlerFailFast(t) ==
    /\ BagIn(t, tasks)
    /\ tasks' = IF t.handler = "bad"
                THEN [u \in {x \in BagToSet(tasks) : x.event # t.event} |-> tasks[u]]
                ELSE tasks (-) SetToBag({t})
    /\ UNCHANGED <<repo, states, halState, handlers, runs, deviceOps, changes>>
    /\ UNCHANGED <<schedVars, pureVars, storeVars, boot>>

\* a handler task runs to its end, returning or raising: the WebSocket
\* handler broadcasts the event to the connected clients
\* (ConnectionManager.broadcast keeps its faults); what a handler raises
\* stays in its task, which nobody awaits
RunHandler(t) ==
    /\ BagIn(t, tasks)
    /\ tasks' = tasks (-) SetToBag({t})
    /\ UNCHANGED <<repo, states, halState, handlers, runs, deviceOps, changes>>
    /\ UNCHANGED <<schedVars, pureVars, storeVars, boot>>

\* -------------------------------------------------------- device service
\* StateManager.set_state
SetState(st, d, state) == (d :> state) @@ st

\* DeviceService.control_device: send the command; when the HAL answers
\* success, re-read the state (which can raise), cache it and publish.
ControlDevice(d, cmd, outcome, readOk) ==
    /\ deviceOps < MaxDeviceOps
    /\ deviceOps' = deviceOps + 1
    /\ LET hs == IF HalApplies(outcome) THEN ApplyCommand(halState, d, cmd) ELSE halState
           stored == outcome = "ok" /\ readOk
           ev == [Entry("publish", 0, Missing, d, DEVICE_STATE_CHANGED, 0, "control")
                     EXCEPT !.state = hs[d]]
       IN  /\ halState' = hs
           /\ states' = IF stored THEN SetState(states, d, hs[d]) ELSE states
           /\ tasks' = tasks (+) (IF stored THEN PublishTasks(handlers, DEVICE_STATE_CHANGED, ev) ELSE EmptyBag)
           /\ changes' = IF stored /\ ContextState(states, d) # hs[d] THEN changes \cup {ev} ELSE changes
    /\ UNCHANGED <<repo, handlers, runs>>
    /\ UNCHANGED <<schedVars, pureVars, storeVars, boot>>

\* DeviceService.sync_device_state: read the HAL, cache, publish
SyncDeviceState(d, readOk) ==
    /\ deviceOps < MaxDeviceOps
    /\ deviceOps' = deviceOps + 1
    /\ LET ev == [Entry("publish", 0, Missing, d, DEVICE_STATE_CHANGED, 0, "sync")
                     EXCEPT !.state = halState[d]]
       IN  /\ states' = IF readOk THEN SetState(states, d, halState[d]) ELSE states
           /\ tasks' = tasks (+) (IF readOk THEN PublishTasks(handlers, DEVICE_STATE_CHANGED, ev) ELSE EmptyBag)
           /\ changes' = IF readOk /\ ContextState(states, d) # halState[d]
                          THEN changes \cup {ev} ELSE changes
    /\ UNCHANGED <<repo, halState, handlers, runs>>
    /\ UNCHANGED <<schedVars, pureVars, storeVars, boot>>

\* ------------------------------------------------------------- scheduler
\* The scheduler as one value: AsyncIOScheduler.running, its _pending_jobs
\* and its memory job store, and SceneScheduler._job_map.
Sched == [running |-> running, pendingJobs |-> pendingJobs,
          jobStore |-> jobStore, jobMap |-> jobMap]

\* id=f"scene_{scene_id}"
Job(scene_id, cron, cb) == [id |-> <<"scene", scene_id>>, scene_id |-> scene_id, cron |-> cron, callback |-> cb]

\* a function without the key k
Without(f, k) == [x \in DOMAIN f \ {k} |-> f[x]]
\* dict[k] = v
With(f, k, v) == (k :> v) @@ f
\* a list without its i-th element
Delete(seq, i) == SubSeq(seq, 1, i - 1) \o SubSeq(seq, i + 1, Len(seq))

\* the field values CronTrigger accepts for the minute ("x" raises ValueError)
\* CronTrigger(minute=..., hour=..., ...) does not raise
ValidCron(parts) == \A i \in 1..Len(parts) : parts[i] \in {"*", "0", "1"}
\* the instant t (in minutes) is a fire time of the expression; the
\* expressions of the model restrict the minute only
Matches(parts, t) ==
    LET FieldValue(token) == IF token = "0" THEN 0 ELSE 1
    IN  parts[1] = "*" \/ FieldValue(parts[1]) = t % 60

\* BaseScheduler.remove_job: while the scheduler is stopped the first pending
\* job of that id is removed, else the job of the store; JobLookupError
\* (ok = FALSE) when there is none.
RemoveJob(sch, job_id) ==
    IF ~sch.running
    THEN LET hits == {i \in 1..Len(sch.pendingJobs) : sch.pendingJobs[i].id = job_id}
         IN  IF hits = {} THEN [ok |-> FALSE, sch |-> sch]
             ELSE LET first == CHOOSE i \in hits : \A j \in hits : i <= j
                  IN  [ok |-> TRUE, sch |-> [sch EXCEPT !.pendingJobs = Delete(@, first)]]
    ELSE IF job_id \in DOMAIN sch.jobStore
         THEN [ok |-> TRUE, sch |-> [sch EXCEPT !.jobStore = Without(@, job_id)]]
         ELSE [ok |-> FALSE, sch |-> sch]

\* SceneScheduler.unregister_scene: the except clause keeps _job_map as it is
\* when remove_job raises.
UnregisterScene(sch, scene_id) ==
    IF scene_id \notin DOMAIN sch.jobMap THEN sch
    ELSE LET res == RemoveJob(sch, sch.jobMap[scene_id])
         IN  IF res.ok THEN [res.sch EXCEPT !.jobMap = Without(@, scene_id)] ELSE sch

\* BaseScheduler.add_job(..., replace_existing=True): queued while the
\* scheduler is stopped, else stored in place of the job of the same id.
AddJob(sch, job) ==
    IF ~sch.running
    THEN [sch EXCEPT !.pendingJobs = Append(@, job)]
    ELSE [sch EXCEPT !.jobStore = With(@, job.id, job)]

\* SceneScheduler._add_cron_job
AddCronJob(sch, scene_id, cron_expr, callback) ==
    IF Len(cron_expr) # 5 THEN sch
    ELSE IF ~ValidCron(cron_expr) THEN sch
    ELSE LET job == Job(scene_id, cron_expr, callback)
         IN  [AddJob(sch, job) EXCEPT !.jobMap = With(@, scene_id, job.id)]

\* the for loop of register_scene over triggers i..Len(triggers)
RECURSIVE RegisterTriggers(_, _, _, _)
RegisterTriggers(sch, scene, callback, i) ==
    IF i > Len(scene.definition.triggers) THEN sch
    ELSE LET trigger == scene.definition.triggers[i]
             next == IF trigger.type = "time" /\ trigger.cron # <<>>
                     THEN AddCronJob(sch, scene.id, trigger.cron, callback)
                     ELSE sch
         IN  RegisterTriggers(next, scene, callback, i + 1)

\* SceneScheduler.register_scene
RegisterScene(sch, scene, callback) ==
    RegisterTriggers(UnregisterScene(sch, scene.id), scene, callback, 1)

\* BaseScheduler.start: every pending job is added with its replace_existing
RECURSIVE AddPending(_, _)
AddPending(store, pending) ==
    IF pending = <<>> THEN store
    ELSE AddPending(With(store, Head(pending).id, Head(pending)), Tail(pending))

\* SceneScheduler.start
StartScheduler(sch) ==
    IF sch.running THEN sch
    ELSE [sch EXCEPT !.running = TRUE, !.pendingJobs = <<>>,
                     !.jobStore = AddPending(sch.jobStore, sch.pendingJobs)]

\* SceneScheduler.shutdown: MemoryJobStore.shutdown drops its jobs
ShutdownScheduler(sch) ==
    IF ~sch.running THEN sch
    ELSE [sch EXCEPT !.running = FALSE, !.jobStore = [j \in {} |-> 0]]

\* SceneScheduler.get_scheduled_scenes
GetScheduledScenes(sch) == DOMAIN sch.jobMap

\* the schedules the scheduler holds for a scene: queued or stored jobs
Schedules(sch, scene_id) ==
    {[at |-> <<"pending", i>>, cron |-> sch.pendingJobs[i].cron] :
        i \in {j \in 1..Len(sch.pendingJobs) : sch.pendingJobs[j].scene_id = scene_id}}
    \cup {[at |-> <<"store", 0>>, cron |-> sch.jobStore[id].cron] :
        id \in {j \in DOMAIN sch.jobStore : sch.jobStore[j].scene_id = scene_id}}

\* the scheduler's new value becomes the state; op is the call that was made
SetSched(sch, op) ==
    /\ running' = sch.running
    /\ pendingJobs' = sch.pendingJobs
    /\ jobStore' = sch.jobStore
    /\ jobMap' = sch.jobMap
    /\ schedOps' = schedOps + 1
    /\ lastOp' = op
    /\ UNCHANGED <<now, fired, calls>>
    /\ UNCHANGED <<execVars, pureVars, storeVars, boot>>

NoOp == [op |-> "", scene |-> NoScene, n |-> 0, first |-> {}]

Start ==
    /\ schedOps < MaxSchedOps
    /\ SetSched(StartScheduler(Sched), [NoOp EXCEPT !.op = "start"])

\* a shutdown that cancels every execution in progress
CancelAnyJob(run) ==
    IF run.pc \in {"loading", "hal", "sleep"}
    THEN [run EXCEPT !.pc = "done", !.status = "cancelled",
                     !.message = Message("CancelledError", Missing, 0)]
    ELSE run

\* AsyncIOExecutor.shutdown, reached from scheduler.shutdown(): the future of
\* every job still running is cancelled.  The coroutine of a scheduled
\* callback (trigger_callback and the trigger_scene it awaits) gets
\* CancelledError at the await it is suspended in; the request in flight is
\* abandoned.  Runs started by the API are no jobs and go on.
CancelJob(run) ==
    IF run.by = "auto" /\ run.pc \in {"loading", "hal", "sleep"}
    THEN [run EXCEPT !.pc = "done", !.status = "cancelled",
                     !.message = Message("CancelledError", Missing, 0)]
    ELSE run

\* SceneScheduler.shutdown; the history keeps in n the number of firings made
\* before the call.  (AsyncIOScheduler runs the shutdown by call_soon, ahead
\* of every later timer; the call and that callback are one step here.)
Shutdown ==
    /\ schedOps < MaxSchedOps
    /\ LET sch == ShutdownScheduler(Sched)
       IN  /\ running' = sch.running
           /\ pendingJobs' = sch.pendingJobs
           /\ jobStore' = sch.jobStore
           /\ jobMap' = sch.jobMap
    /\ calls' = IF running THEN EmptyBag ELSE calls
    /\ runs' = IF running THEN [r \in RunIds |-> CancelJob(runs[r])] ELSE runs
    /\ schedOps' = schedOps + 1
    /\ lastOp' = [NoOp EXCEPT !.op = "shutdown", !.n = BagCardinality(fired)]
    /\ UNCHANGED <<now, fired>>
    /\ UNCHANGED <<repo, states, halState, handlers, tasks, deviceOps, changes>>
    /\ UNCHANGED <<pureVars, storeVars, boot>>

\* register_scene(scene, callback); the history counts the calls made in a
\* row with the same scene and keeps the schedules the first of them left.
Register(scene, callback) ==
    /\ schedOps < MaxSchedOps
    /\ LET sch == RegisterScene(Sched, scene, callback)
           again == lastOp.op = "register" /\ lastOp.scene = scene
       IN  SetSched(sch, [op |-> "register", scene |-> scene,
                          n |-> IF again THEN lastOp.n + 1 ELSE 1,
                          first |-> IF again THEN lastOp.first
                                    ELSE {x.cron : x \in Schedules(sch, scene.id)}])

Unregister(scene_id) ==
    /\ schedOps < MaxSchedOps
    /\ SetSched(UnregisterScene(Sched, scene_id),
                [NoOp EXCEPT !.op = "unregister", !.scene = Scene(scene_id, NoScene.definition, FALSE)])

\* a clock whose timers wait for the executions that are in a delay
TickAfterDelays ==
    /\ \A r \in RunIds : runs[r].pc # "sleep"
    /\ now < MaxTime
    /\ now' = now + 1
    /\ LET due == IF running
                  THEN {[scene_id |-> jobStore[id].scene_id, cron |-> jobStore[id].cron,
                         at |-> now + 1, callback |-> jobStore[id].callback] :
                           id \in {j \in DOMAIN jobStore : Matches(jobStore[j].cron, now + 1)}}
                  ELSE {}
       IN  /\ fired' = fired (+) SetToBag(due)
           /\ calls' = calls (+) SetToBag({f \in due : f.callback = "coroutine"})
    /\ UNCHANGED <<running, pendingJobs, jobStore, jobMap, schedOps, lastOp>>
    /\ UNCHANGED <<execVars, pureVars, storeVars, boot>>

\* One minute passes.  A running scheduler fires every stored job whose
\* expression matches the new instant: the callback is called with the scene;
\* a coroutine function is run as a task of the event loop.
Firing(job, t) == [scene_id |-> job.scene_id, cron |-> job.cron, at |-> t, callback |-> job.callback]

Tick ==
    /\ now < MaxTime
    /\ now' = now + 1
    /\ LET due == IF running
                  THEN {Firing(jobStore[id], now + 1) :
                           id \in {j \in DOMAIN jobStore : Matches(jobStore[j].cron, now + 1)}}
                  ELSE {}
       IN  /\ fired' = fired (+) SetToBag(due)
           /\ calls' = calls (+) SetToBag({f \in due : f.callback = "coroutine"})
    /\ UNCHANGED <<running, pendingJobs, jobStore, jobMap, schedOps, lastOp>>
    /\ UNCHANGED <<execVars, pureVars, storeVars, boot>>

\* the task of a fired coroutine callback runs: trigger_callback calls
\* scene_service.trigger_scene(s.id, "auto") on the SceneRepository of
\* startup_handler, whose connection was closed when its `async for db in
\* get_db_connection()` ended, before scheduler.start().  A closed aiosqlite
\* connection raises at execute, with no suspension, and get_by_id turns
\* that into DatabaseError: the call ends before anything is published.
CallbackStart(r, f) ==
    /\ BagIn(f, calls)
    /\ FreeRun(r)
    /\ calls' = calls (-) SetToBag({f})
    /\ runs' = [runs EXCEPT ![r] = [IdleRun EXCEPT !.pc = "done", !.scene_id = f.scene_id, !.by = "auto",
                                                   !.status = "raised",
                                                   !.message = Message("DatabaseError", Missing, 0)]]
    /\ UNCHANGED <<repo, states, halState, handlers, tasks, deviceOps, changes>>
    /\ UNCHANGED <<running, pendingJobs, jobStore, jobMap, now, fired, schedOps, lastOp>>
    /\ UNCHANGED <<pureVars, storeVars, boot>>

\* the trigger lists of the scenes handed to the scheduler
ScheduledScenes ==
    LET
        TriggerLists ==
            {<<>>, <<ManualTrigger>>,
             <<TimeTrigger(CronMinute0)>>,
             <<TimeTrigger(CronMinute0), TimeTrigger(CronMinute1)>>,
             <<TimeTrigger(CronFourFields), TimeTrigger(CronMinute1)>>,
             <<TimeTrigger(CronMinute1), TimeTrigger(CronBadValue)>>,
             <<TimeTrigger(CronMinute0), TimeTrigger(CronBadValue), TimeTrigger(CronMinute1)>>,
             <<TimeTrigger(<<>>)>>}
    IN
    {Scene(id, SceneDefinition(tr, NoConditions, <<DeviceControlAction("d1", OPEN)>>), TRUE) :
        id \in SceneIds, tr \in TriggerLists}
Callbacks == {"coroutine", "lambda"}

\* --------------------------------------------------------- state manager
\* The StateManager at the level of its objects.  Here the values of `states`
\* are DeviceState objects with their identity (oid), and attributes is the
\* dict itself, a function on the keys it holds.  An assignment to a field of
\* an object is seen by every holder of a reference to the object.
StoreClients == 1..MaxClients
NoClient == 0
StateObject(oid, s, attrs, t) == [oid |-> oid, state |-> s, attributes |-> attrs, last_updated |-> t]
IdleCall == [pc |-> "idle", device_id |-> Missing]
NoSnapshot == [taken |-> FALSE, map |-> <<>>]
NoStoreOp == [n |-> 0, op |-> "", device_id |-> Missing, error |-> "", client |-> NoClient,
              arg |-> <<>>]

\* set_state that keeps the last_updated its caller supplied
KeepStamp(state, t) == state

\* set_state: state.last_updated = datetime.now()
Stamp(state, t) == [state EXCEPT !.last_updated = t]

\* update_state_attributes that replaces the attributes by the given ones
ReplaceStateAttributes(object, attributes, t) ==
    [object EXCEPT !.attributes = attributes, !.last_updated = t]

\* update_state_attributes: attributes.update(attributes) and the new
\* last_updated, both assigned in place
UpdateStateAttributes(object, attributes, t) ==
    [object EXCEPT !.attributes = attributes @@ @, !.last_updated = t]

\* every reference to the object oid in a dict now shows the object's new value
MutateIn(map, oid, object) ==
    [d \in DOMAIN map |-> IF map[d].oid = oid THEN object ELSE map[d]]

\* the body of a StateManager method, from `async with self._lock` (the lock
\* is free and is taken) to the release of the lock; nothing in it is awaited:
\* get_state, set_state, update_state_attributes, remove_state,
\* get_all_states, clear
StoreBody(c, op, d, arg) ==
    LET cached == d \in DOMAIN states
        patched == UpdateStateAttributes(states[d], arg, now)
    IN  /\ lock = NoClient
        /\ lock' = NoClient
        /\ states' =
              CASE op = "set" -> SetState(states, d, Stamp(arg, now))
                [] op = "patch" /\ cached -> MutateIn(states, states[d].oid, patched)
                [] op = "remove" -> Without(states, d)
                [] op = "clear" -> [x \in {} |-> NoState]
                [] OTHER -> states
        /\ snapshot' =
              CASE op = "all" -> [taken |-> TRUE, map |-> states]
                [] op = "patch" /\ cached ->
                      [snapshot EXCEPT !.map = MutateIn(@, states[d].oid, patched)]
                [] OTHER -> snapshot
        /\ lastStore' = [n |-> lastStore.n + 1, op |-> op, device_id |-> d,
                         error |-> IF op = "patch" /\ ~cached THEN "StateManagerError" ELSE "",
                         client |-> c, arg |-> arg]

\* the calls made so far and those on their way
StoreOps == lastStore.n + Cardinality({x \in StoreClients : storeCalls[x].pc # "idle"})

\* a client calls a method of the StateManager; the DeviceState handed to
\* set_state is a new object
StoreCall(c, op, d, arg) ==
    /\ storeCalls[c].pc = "idle"
    /\ StoreOps < MaxStoreOps
    /\ StoreBody(c, op, d, arg)
    /\ UNCHANGED <<repo, halState, handlers, tasks, runs, deviceOps, changes>>
    /\ UNCHANGED <<storeCalls, boot>>
    /\ UNCHANGED <<schedVars, pureVars>>

\* a refresh that takes the lock before it asks the HAL
SyncCallLocked(c, d) ==
    /\ storeCalls[c].pc = "idle"
    /\ StoreOps < MaxStoreOps
    /\ lock = NoClient
    /\ lock' = c
    /\ storeCalls' = [storeCalls EXCEPT ![c] = [IdleCall EXCEPT !.pc = "hal", !.device_id = d]]
    /\ UNCHANGED <<snapshot, lastStore, boot>>
    /\ UNCHANGED <<execVars, schedVars, pureVars>>

\* a task refreshes a device as the loop of startup_handler does (and
\* DeviceService.sync_device_state before its publish): up to its await of
\* hal_client.get_device_state
SyncCall(c, d) ==
    /\ storeCalls[c].pc = "idle"
    /\ StoreOps < MaxStoreOps
    /\ storeCalls' = [storeCalls EXCEPT ![c] = [IdleCall EXCEPT !.pc = "hal", !.device_id = d]]
    /\ UNCHANGED <<lock, snapshot, lastStore, boot>>
    /\ UNCHANGED <<execVars, schedVars, pureVars>>

\* the HAL answers: HALClient.get_device_state returns a new DeviceState
\* stamped with the time of the answer and set_state is called with it, or
\* it raises and the caller gives up
HalRead(c, ok) ==
    /\ storeCalls[c].pc = "hal"
    /\ storeCalls' = [storeCalls EXCEPT ![c] = IdleCall]
    /\ IF ok
       THEN /\ StoreBody(c, "set", storeCalls[c].device_id,
                         StateObject(<<c, lastStore.n>>, halState[storeCalls[c].device_id].state,
                                     [k \in {} |-> None], now))
            /\ UNCHANGED <<repo, halState, handlers, tasks, runs, deviceOps, changes>>
       ELSE UNCHANGED <<execVars, storeVars>>
    /\ UNCHANGED boot
    /\ UNCHANGED <<schedVars, pureVars>>

\* ------------------------------------------- device service, step by step
\* DeviceService.control_device as a client c of the StateManager, with its
\* awaits.  The device is persisted; the calls are counted with those of the
\* StateManager.  Up to the await of hal_client.control_device:
ControlDeviceCall(c, d, cmd) ==
    /\ storeCalls[c].pc = "idle"
    /\ StoreOps < MaxStoreOps
    /\ storeCalls' = [storeCalls EXCEPT ![c] = [pc |-> "command", device_id |-> d, command |-> cmd]]
    /\ UNCHANGED <<lock, snapshot, lastStore, boot>>
    /\ UNCHANGED <<execVars, schedVars, pureVars>>

\* the HAL's answer to the command: on success=true control_device goes on
\* to its await of hal_client.get_device_state; on success=false it returns
\* False, and what the HAL client raises leaves control_device
ControlDeviceAnswer(c, outcome) ==
    /\ storeCalls[c].pc = "command"
    /\ halState' = IF HalApplies(outcome)
                   THEN ApplyCommand(halState, storeCalls[c].device_id, storeCalls[c].command)
                   ELSE halState
    /\ storeCalls' = [storeCalls EXCEPT ![c] = IF outcome = "ok" THEN [@ EXCEPT !.pc = "reread"]
                                                                ELSE IdleCall]
    /\ UNCHANGED <<repo, states, handlers, tasks, runs, deviceOps, changes>>
    /\ UNCHANGED <<lock, snapshot, lastStore, boot>>
    /\ UNCHANGED <<schedVars, pureVars>>

\* mutant: the event tells the state that was commanded
CommandedState(c) ==
    StateObject(<<c, lastStore.n>>, storeCalls[c].command, [k \in {} |-> None], now)

\* new_state: the DeviceState that hal_client.get_device_state builds from
\* the HAL's answer
RereadState(c) ==
    StateObject(<<c, lastStore.n>>, halState[storeCalls[c].device_id].state, [k \in {} |-> None], now)

\* the HAL's answer to the re-read: set_state(device_id, new_state), then
\* publish with new_state.model_dump(), the object set_state has stamped;
\* neither call suspends.  A re-read that raises leaves control_device.
ControlDeviceReread(c, ok) ==
    /\ storeCalls[c].pc = "reread"
    /\ storeCalls' = [storeCalls EXCEPT ![c] = IdleCall]
    /\ IF ok
       THEN LET d == storeCalls[c].device_id
                ev == [Entry("publish", 0, Missing, d, DEVICE_STATE_CHANGED, 0, "control")
                          EXCEPT !.state = Stamp(RereadState(c), now)]
            IN  /\ StoreBody(c, "set", d, RereadState(c))
                /\ tasks' = tasks (+) PublishTasks(handlers, DEVICE_STATE_CHANGED, ev)
                /\ UNCHANGED <<repo, halState, handlers, runs, deviceOps, changes>>
       ELSE UNCHANGED <<execVars, storeVars>>
    /\ UNCHANGED boot
    /\ UNCHANGED <<schedVars, pureVars>>

\* --------------------------------------------------------------- startup
\* startup_handler is not followed.  While it is, pc is the step it is at,
\* devices the list device_repo.get_all returned, queried the devices whose
\* state the HAL was asked for, in order, loaded those it answered for, and
\* cause what startup_handler raised
NotBooting == [pc |-> "none", devices |-> <<>>, queried |-> <<>>, loaded |-> {}, cause |-> ""]

\* startup_handler from its start to the answer of device_repo.get_all:
\* init_database, the four singletons, hal_client.health_check (whose answer
\* only changes what is printed), the connection, the list of devices.  A
\* fault of the database leaves startup_handler.
StartupListDevices(devices, ok) ==
    /\ boot.pc = "devices"
    /\ boot' = IF ok THEN [boot EXCEPT !.pc = "loading", !.devices = devices]
                     ELSE [boot EXCEPT !.pc = "failed", !.cause = "database"]
    /\ UNCHANGED <<execVars, schedVars, pureVars, storeVars>>

\* the loop over the devices in which a fault of the HAL leaves startup_handler
StartupLoadDeviceAbort(ok) ==
    /\ boot.pc = "loading"
    /\ Len(boot.queried) < Len(boot.devices)
    /\ LET d == boot.devices[Len(boot.queried) + 1]
       IN  IF ok
           THEN /\ boot' = [boot EXCEPT !.queried = Append(@, d), !.loaded = @ \cup {d}]
                /\ StoreBody(1, "set", d,
                             StateObject(<<0, d>>, halState[d].state, [k \in {} |-> None], now))
                /\ UNCHANGED storeCalls
           ELSE /\ boot' = [boot EXCEPT !.queried = Append(@, d), !.pc = "failed", !.cause = "hal"]
                /\ UNCHANGED <<states, storeVars>>
    /\ UNCHANGED <<repo, halState, handlers, tasks, runs, deviceOps, changes>>
    /\ UNCHANGED <<schedVars, pureVars>>

\* one round of the loop over the devices: get_device_state is awaited and
\* its result stored with set_state; what either raises is printed
StartupLoadDevice(ok) ==
    /\ boot.pc = "loading"
    /\ Len(boot.queried) < Len(boot.devices)
    /\ LET d == boot.devices[Len(boot.queried) + 1]
       IN  IF ok
           THEN /\ boot' = [boot EXCEPT !.queried = Append(@, d), !.loaded = @ \cup {d}]
                /\ StoreBody(1, "set", d,
                             StateObject(<<0, d>>, halState[d].state, [k \in {} |-> None], now))
                /\ UNCHANGED storeCalls
           ELSE /\ boot' = [boot EXCEPT !.queried = Append(@, d)]
                /\ UNCHANGED <<states, storeVars>>
    /\ UNCHANGED <<repo, halState, handlers, tasks, runs, deviceOps, changes>>
    /\ UNCHANGED <<schedVars, pureVars>>

\* after the last device: scene_repo.get_all(active_only=True) answers and
\* every active scene is registered with trigger_callback (what
\* register_scene raises is printed); a fault of the database leaves
\* startup_handler
StartupRegisterScenes(ok) ==
    /\ boot.pc = "loading"
    /\ Len(boot.queried) = Len(boot.devices)
    /\ LET Registered(before, scene) ==
               IF scene # NoScene /\ scene.is_active
               THEN RegisterScene(before, scene, "coroutine") ELSE before
           sch == Registered(Registered(Sched, repo["s1"]), repo["s2"])
       IN  IF ok
           THEN /\ boot' = [boot EXCEPT !.pc = "scenes"]
                /\ pendingJobs' = sch.pendingJobs
                /\ jobStore' = sch.jobStore
                /\ jobMap' = sch.jobMap
           ELSE /\ boot' = [boot EXCEPT !.pc = "failed", !.cause = "database"]
                /\ UNCHANGED <<pendingJobs, jobStore, jobMap>>
    /\ UNCHANGED <<running, now, fired, calls, schedOps, lastOp>>
    /\ UNCHANGED <<execVars, pureVars, storeVars>>

\* the connection is closed, scene_scheduler.start() and
\* setup_websocket_events(event_bus)
StartupFinish ==
    /\ boot.pc = "scenes"
    /\ boot' = [boot EXCEPT !.pc = "done"]
    /\ LET sch == StartScheduler(Sched)
       IN  /\ running' = sch.running
           /\ pendingJobs' = sch.pendingJobs
           /\ jobStore' = sch.jobStore
    /\ handlers' = [t \in Topics |-> handlers[t] \o WsHandlers[t]]
    /\ UNCHANGED <<jobMap, now, fired, calls, schedOps, lastOp>>
    /\ UNCHANGED <<repo, states, halState, tasks, runs, deviceOps, changes>>
    /\ UNCHANGED <<pureVars, storeVars>>

\* ---------------------------------------------------------------- parser
\* The raw input of SceneParser.parse.  A JSON value where a list or a map is
\* expected is tagged with what it is: "list", "map", "str", "null", or
\* "absent" for a key the map does not hold.
RawList(items) == [t |-> "list", v |-> items]
RawAbsent == [t |-> "absent", v |-> <<>>]
RawString == [t |-> "str", v |-> <<>>]
RawGroup(op, items) == [t |-> "map", operator |-> op, items |-> items]
RawNoGroup == [t |-> "absent", operator |-> Missing, items |-> RawAbsent]
RawDefinition(tr, co, ac) == [t |-> "map", triggers |-> tr, conditions |-> co, actions |-> ac]

\* what parse does: return a SceneDefinition or raise
ParseReturned(def) == [fn |-> "parse", ok |-> TRUE, error |-> "", definition |-> def]
ParseRaised(error) == [fn |-> "parse", ok |-> FALSE, error |-> error, definition |-> NoScene.definition]

\* pydantic's validation of SceneDefinition: triggers is a list of dicts
\* (default []), conditions is None or a ConditionGroup (operator "and" or
\* "or", items a list of dicts), actions is a list of dicts and required.
\* The dicts of the three lists are not looked into.
ValidModel(data) ==
    /\ data.triggers.t \in {"absent", "list"}
    /\ \/ data.conditions.t \in {"absent", "null"}
       \/ /\ data.conditions.t = "map"
          /\ data.conditions.operator \in {"and", "or"}
          /\ data.conditions.items.t = "list"
    /\ data.actions.t = "list"

\* SceneParser.parse: SceneDefinition(**definition_data); ** on a value that
\* is no mapping raises TypeError, which the except clause does not catch.
Parse(definition_data) ==
    IF definition_data.t # "map" THEN ParseRaised("TypeError")
    ELSE IF ~ValidModel(definition_data) THEN ParseRaised("SceneDefinitionError")
    ELSE ParseReturned(SceneDefinition(
             definition_data.triggers.v,
             IF definition_data.conditions.t \in {"absent", "null"} THEN NoConditions
             ELSE ConditionGroup(definition_data.conditions.operator, definition_data.conditions.items.v),
             definition_data.actions.v))

\* model_dump_json that leaves the conditions out
SerializeNoConditions(definition) ==
    RawDefinition(RawList(definition.triggers), RawNoGroup, RawList(definition.actions))

\* SceneRepository.save and Scene.from_db_row: definition.model_dump_json()
\* is stored and json.loads gives the map back; conditions = None is written
\* as an explicit null
Serialize(definition) ==
    RawDefinition(RawList(definition.triggers),
                  IF definition.conditions = NoConditions
                  THEN [RawNoGroup EXCEPT !.t = "null"]
                  ELSE RawGroup(definition.conditions.operator,
                                RawList(definition.conditions.items)),
                  RawList(definition.actions))

\* ------------------------------------------------- calls of pure functions
NoRequest == [fn |-> "none"]
NoResponse == [fn |-> "none"]
ParseRequest(data) == [fn |-> "parse", definition_data |-> data]
EvaluateRequest(condition_data, ctx, clock) ==
    [fn |-> "evaluate", condition_data |-> condition_data, context |-> ctx, clock |-> clock]
EvaluateReturned(value) == [fn |-> "evaluate", value |-> value]

\* SceneParser.parse(definition_data) runs
ParseCall ==
    /\ request.fn = "parse"
    /\ response = NoResponse
    /\ response' = Parse(request.definition_data)
    /\ UNCHANGED <<execVars, schedVars, request, storeVars, boot>>

\* ConditionEvaluator.evaluate(condition_data, context) runs at the time clock
EvaluateCall ==
    /\ request.fn = "evaluate"
    /\ response = NoResponse
    /\ response' = EvaluateReturned(Evaluate(request.condition_data, request.context, request.clock))
    /\ UNCHANGED <<execVars, schedVars, request, storeVars, boot>>

\* the raw definitions handed to parse
ParseRequests ==
    LET
        RawBadGroup == [t |-> "str", operator |-> Missing, items |-> RawAbsent]
        \* an input that is no map: a list, null, a string
        RawNotAMap(t) == [t |-> t, triggers |-> RawAbsent, conditions |-> RawNoGroup, actions |-> RawAbsent]
        RawTriggerLists ==
            {RawAbsent, RawString, RawList(<<>>), RawList(<<ManualTrigger>>),
             RawList(<<DeviceStateTrigger("d1", Cond("eq", "state", OPEN))>>),
             RawList(<<DeviceStateTrigger(Missing, Cond("eq", "state", OPEN))>>),
             RawList(<<DeviceStateTrigger("d1", NoCond)>>),
             RawList(<<TimeTrigger(CronMinute0)>>),
             RawList(<<TimeTrigger(CronFourFields)>>),
             RawList(<<[ManualTrigger EXCEPT !.type = "bogus"]>>),
             RawList(<<[ManualTrigger EXCEPT !.type = Missing]>>)}
        RawConditions ==
            {RawNoGroup, RawBadGroup,
             RawGroup("and", RawList(<<>>)),
             RawGroup("xor", RawList(<<>>)),
             RawGroup("and", RawString),
             RawGroup("or", RawList(<<DeviceStateCondition("d1", Cond("eq", "state", OPEN))>>)),
             RawGroup("and", RawList(<<TimeRangeCondition(<<22, 0>>, <<6, 0>>)>>)),
             RawGroup("and", RawList(<<UnknownCondition>>))}
        RawActionLists ==
            {RawAbsent, RawString, RawList(<<>>),
             RawList(<<DeviceControlAction("d1", OPEN)>>),
             RawList(<<DeviceControlAction(Missing, OPEN)>>),
             RawList(<<DeviceControlAction("d1", None)>>),
             RawList(<<DelayAction(1)>>),
             RawList(<<DelayAction(-1)>>),
             RawList(<<UnknownAction>>),
             RawList(<<[UnknownAction EXCEPT !.type = Missing]>>)}
    IN
    {ParseRequest(RawDefinition(tr, co, ac)) :
        tr \in RawTriggerLists, co \in RawConditions, ac \in RawActionLists}
    \cup {ParseRequest(RawNotAMap(t)) : t \in {"list", "null", "str"}}

\* the conditions handed to evaluate, the device states of the context and
\* the time of day of the call
EvaluateRequests ==
    LET
        LeafConditions ==
            {DeviceStateCondition("d1", Cond("eq", "state", OPEN)),
             DeviceStateCondition("d1", Cond("gt", "brightness", Num(5))),
             DeviceStateCondition("d1", Cond("gt", "state", Num(5))),
             DeviceStateCondition("d1", Cond("like", "state", OPEN)),
             DeviceStateCondition("d2", Cond("ne", "state", CLOSED)),
             TimeRangeCondition(<<22, 0>>, <<6, 0>>)}
        NestedGroups ==
            {NestedGroup(op, items) :
                op \in {"and", "or"},
                items \in {<<>>, <<DeviceStateCondition("d1", Cond("eq", "state", OPEN))>>}}
        ItemLists ==
            LET GroupItems == LeafConditions \cup NestedGroups \cup {UnknownCondition}
            IN  {<<>>} \cup {<<a>> : a \in GroupItems} \cup {<<a, b>> : a, b \in GroupItems}
        Contexts ==
            {<<>>,
             [d \in {"d1"} |-> DeviceState(OPEN, None)],
             [d \in {"d1"} |-> DeviceState(CLOSED, Num(8))],
             [d \in Devices |-> DeviceState(OPEN, Num(3))]}
        Clocks == {<<0, 0, 0>>, <<6, 0, 0>>, <<6, 0, 30>>, <<12, 0, 0>>, <<21, 59, 59>>,
                   <<22, 0, 0>>, <<23, 30, 0>>}
        ClockTimes == {<<0, 0>>, <<6, 0>>, <<12, 0>>, <<22, 0>>, <<23, 59>>}
    IN  {EvaluateRequest(ConditionGroup(op, items), ctx, <<23, 30, 0>>) :
            op \in {"and", "or", "xor"}, items \in ItemLists, ctx \in Contexts}
        \cup {EvaluateRequest(leaf, ctx, <<12, 0, 0>>) :
                leaf \in LeafConditions \cup {UnknownCondition}, ctx \in Contexts}
        \cup {EvaluateRequest(TimeRangeCondition(start, end), <<>>, clock) :
                start \in ClockTimes, end \in ClockTimes, clock \in Clocks}
        \cup {EvaluateRequest(NoConditions, ctx, <<12, 0, 0>>) : ctx \in Contexts}

\* ------------------------------------------------- scene service, CRUD
\* EventTypes of the scene table; nothing in the program subscribes to them
SCENE_ADDED == "scene_added"
SCENE_UPDATED == "scene_updated"
SCENE_REMOVED == "scene_removed"

\* A coroutine of create_scene, update_scene, delete_scene or activate_scene
\* takes a slot of `runs` as a trigger_scene does: by is the method, scene
\* its local `scene`, is_active the argument of activate_scene.
SceneCall(run, by, scene_id, pc, scene, is_active) ==
    [is_active |-> is_active]
    @@ [run EXCEPT !.pc = pc, !.by = by, !.scene_id = scene_id, !.scene = scene]

\* the method raises: nothing after the raise is done
SceneCallRaises(run, by, scene_id, error) ==
    [SceneCall(run, by, scene_id, "done", run.scene, FALSE)
        EXCEPT !.status = "raised", !.message = Message(error, Missing, 0)]

\* the method returns after its publish (if any)
SceneCallReturns(run, r, topic) ==
    [run EXCEPT !.pc = "done", !.status = "returned",
                !.log = IF topic = "" THEN @
                        ELSE Append(@, Entry("publish", r, run.scene_id, Missing, topic, 0, ""))]

\* a step of the scene service that leaves everything but runs, repo and the
\* scheduler's jobs alone
SceneStep(sch) ==
    /\ running' = sch.running
    /\ pendingJobs' = sch.pendingJobs
    /\ jobStore' = sch.jobStore
    /\ jobMap' = sch.jobMap
    /\ UNCHANGED <<now, fired, calls, schedOps, lastOp>>
    /\ UNCHANGED <<states, halState, handlers, tasks, deviceOps, changes>>
    /\ UNCHANGED <<pureVars, storeVars, boot>>

\* mutant: a create_scene that stores the scene before it looks at the
\* definition
CreateSceneSavesFirst(r, scene_id, definition_data, is_active) ==
    /\ FreeRun(r)
    /\ LET parsed == Parse(definition_data)
       IN  /\ runs' = [runs EXCEPT ![r] =
                 IF parsed.ok
                 THEN SceneCall(@, "create", scene_id, "saving",
                                Scene(scene_id, parsed.definition, is_active), is_active)
                 ELSE SceneCallRaises(@, "create", scene_id, parsed.error)]
           /\ repo' = [repo EXCEPT ![scene_id] = Scene(scene_id, parsed.definition, is_active)]
    /\ SceneStep(Sched)

\* create_scene up to its await of scene_repo.save: parse comes first
CreateScene(r, scene_id, definition_data, is_active) ==
    /\ FreeRun(r)
    /\ LET parsed == Parse(definition_data)
       IN  runs' = [runs EXCEPT ![r] =
              IF parsed.ok
              THEN SceneCall(@, "create", scene_id, "saving",
                             Scene(scene_id, parsed.definition, is_active), is_active)
              ELSE SceneCallRaises(@, "create", scene_id, parsed.error)]
    /\ UNCHANGED repo
    /\ SceneStep(Sched)

\* create_scene after the save: register an active scene, publish, return
CreateSceneSaved(r) ==
    /\ runs[r].pc = "saving" /\ runs[r].by = "create"
    /\ repo' = [repo EXCEPT ![runs[r].scene_id] = runs[r].scene]
    /\ runs' = [runs EXCEPT ![r] = SceneCallReturns(@, r, SCENE_ADDED)]
    /\ SceneStep(IF runs[r].scene.is_active THEN RegisterScene(Sched, runs[r].scene, "lambda") ELSE Sched)

\* update_scene from the answer of get_by_id to its await of save;
\* is_active is <<>> when scene_data has no such key, else <<value>>
UpdateScene(r, scene_id, definition_data, is_active) ==
    /\ FreeRun(r)
    /\ LET existing == repo[scene_id]
           parsed == Parse(definition_data)
       IN  runs' = [runs EXCEPT ![r] =
              IF existing = NoScene THEN SceneCallRaises(@, "update", scene_id, "SceneNotFoundError")
              ELSE IF ~parsed.ok THEN SceneCallRaises(@, "update", scene_id, parsed.error)
              ELSE SceneCall(@, "update", scene_id, "saving",
                             Scene(scene_id, parsed.definition,
                                   IF is_active = <<>> THEN existing.is_active ELSE is_active[1]),
                             FALSE)]
    /\ UNCHANGED repo
    /\ SceneStep(Sched)

\* update_scene after the save: unregister, register an active scene, publish
UpdateSceneSaved(r) ==
    /\ runs[r].pc = "saving" /\ runs[r].by = "update"
    /\ repo' = [repo EXCEPT ![runs[r].scene_id] = runs[r].scene]
    /\ runs' = [runs EXCEPT ![r] = SceneCallReturns(@, r, SCENE_UPDATED)]
    /\ LET sch == UnregisterScene(Sched, runs[r].scene_id)
       IN  SceneStep(IF runs[r].scene.is_active THEN RegisterScene(sch, runs[r].scene, "lambda") ELSE sch)

\* delete_scene from the answer of get_by_id to its await of delete
DeleteScene(r, scene_id) ==
    /\ FreeRun(r)
    /\ runs' = [runs EXCEPT ![r] =
          IF repo[scene_id] = NoScene THEN SceneCallRaises(@, "delete", scene_id, "SceneNotFoundError")
          ELSE SceneCall(@, "delete", scene_id, "deleting", repo[scene_id], FALSE)]
    /\ UNCHANGED repo
    /\ SceneStep(IF repo[scene_id] = NoScene THEN Sched ELSE UnregisterScene(Sched, scene_id))

\* delete_scene after the delete: publish when a row was deleted
DeleteSceneDeleted(r) ==
    /\ runs[r].pc = "deleting"
    /\ repo' = [repo EXCEPT ![runs[r].scene_id] = NoScene]
    /\ runs' = [runs EXCEPT ![r] =
          SceneCallReturns(@, r, IF repo[runs[r].scene_id] # NoScene THEN SCENE_REMOVED ELSE "")]
    /\ SceneStep(Sched)

\* activate_scene from the answer of get_by_id to its await of
\* update_active_status
ActivateScene(r, scene_id, is_active) ==
    /\ FreeRun(r)
    /\ runs' = [runs EXCEPT ![r] =
          IF repo[scene_id] = NoScene THEN SceneCallRaises(@, "activate", scene_id, "SceneNotFoundError")
          ELSE SceneCall(@, "activate", scene_id, "updating", repo[scene_id], is_active)]
    /\ UNCHANGED repo
    /\ SceneStep(Sched)

\* activate_scene after the UPDATE (which changes no row when the scene is
\* gone): the scene it loaded gets the flag and is registered or unregistered
ActivateSceneUpdated(r) ==
    /\ runs[r].pc = "updating"
    /\ LET scene_id == runs[r].scene_id
           scene == [runs[r].scene EXCEPT !.is_active = runs[r].is_active]
       IN  /\ repo' = IF repo[scene_id] = NoScene THEN repo
                      ELSE [repo EXCEPT ![scene_id].is_active = runs[r].is_active]
           /\ runs' = [runs EXCEPT ![r] = SceneCallReturns([@ EXCEPT !.scene = scene], r, "")]
           /\ SceneStep(IF runs[r].is_active THEN RegisterScene(Sched, scene, "lambda")
                        ELSE UnregisterScene(Sched, scene_id))

\* ------------------------------------------------------------------ init
\* The scenes the repository may hold when the process starts.
PersistedScenes(id) ==
    IF id = "s1"
    THEN {Scene(id, def, TRUE) : def \in Definitions} \cup {Scene(id, DefOneControl, FALSE), NoScene}
    ELSE {Scene(id, DefGuarded, TRUE)}

\* What startup_handler leaves in the state manager: the HAL's state of every
\* device whose get_device_state succeeded, nothing for the others.
LoadedStates(hs, cached) == [d \in cached |-> hs[d]]

\* the process apart from the persisted scenes: h the subscriptions of the
\* event bus, b the progress of startup_handler
InitExecWith(h, b) ==
    /\ halState \in [Devices -> {DeviceState(s, None) : s \in StateValues}]
    /\ halState["d2"].state = CLOSED
    /\ \E cached \in {{}, {"d1"}} : states = LoadedStates(halState, cached)
    /\ handlers = h
    /\ tasks = EmptyBag
    /\ runs = [r \in RunIds |-> IdleRun]
    /\ deviceOps = 0
    /\ changes = {}
    /\ lock = NoClient
    /\ storeCalls = [c \in StoreClients |-> IdleCall]
    /\ snapshot = NoSnapshot
    /\ lastStore = NoStoreOp
    /\ boot = b

\* the process once startup_handler has run
InitExec ==
    /\ repo \in [SceneIds -> UNION {PersistedScenes(id) : id \in SceneIds}]
    /\ \A id \in SceneIds : repo[id] \in PersistedScenes(id)
    /\ InitExecWith(WsHandlers, NotBooting)

InitSched ==
    /\ running = FALSE
    /\ pendingJobs = <<>>
    /\ jobStore = [j \in {} |-> 0]
    /\ jobMap = [s \in {} |-> 0]
    /\ now = 0
    /\ fired = EmptyBag
    /\ calls = EmptyBag
    /\ schedOps = 0
    /\ lastOp = NoOp

\* no call of a pure function is followed

Init == InitExec /\ InitSched /\ request = NoRequest /\ response = NoResponse

\* the initial states with no scene "s1" persisted and nothing cached
Quiet ==
    /\ repo["s1"] = NoScene
    /\ states = LoadedStates(halState, {})
    /\ halState["d1"].state = CLOSED

\* the process with no scene "s1" persisted and nothing cached
InitQuiet == Init /\ Quiet

\* parse is called with one of the raw definitions
InitParser ==
    /\ InitExec /\ InitSched /\ Quiet
    /\ request \in ParseRequests
    /\ response = NoResponse

\* evaluate is called with one of the conditions
InitEvaluator ==
    /\ InitExec /\ InitSched /\ Quiet
    /\ request \in EvaluateRequests
    /\ response = NoResponse

\* the clients of the StateManager and the clock; the store starts empty
NextStore ==
    \/ \E c \in StoreClients, d \in Devices :
          \/ StoreCall(c, "remove", d, <<>>)
          \/ \E t \in {0, MaxTime + 1} :
                StoreCall(c, "set", d,
                          StateObject(<<c, lastStore.n>>, OPEN,
                                      ("brightness" :> Num(1)) @@ ("color" :> Str(0)), t))
          \/ \E attributes \in {("brightness" :> Num(2)), ("color" :> Str(1))} :
                StoreCall(c, "patch", d, attributes)
          \/ SyncCall(c, d)
    \/ \E c \in StoreClients, op \in {"all", "clear"} : StoreCall(c, op, Missing, <<>>)
    \/ \E c \in StoreClients, ok \in BOOLEAN : HalRead(c, ok)
    \/ Tick

\* the scene service and the executor: manual triggers and the runs they start
NextExec ==
    \/ \E r \in RunIds, sid \in SceneIds : TriggerSceneCall(r, sid, "manual")
    \/ \E r \in RunIds : TriggerSceneLoaded(r)
    \/ \E r \in RunIds, outcome \in HalOutcomes : HalResponse(r, outcome)
    \/ \E r \in RunIds : DelayElapsed(r)

\* a new event bus and the persisted scene "s1" with one device_control action
InitBus ==
    /\ repo = [id \in SceneIds |-> Scene(id, IF id = "s1" THEN DefOneControl ELSE DefGuarded, TRUE)]
    /\ InitExecWith(NoHandlers, NotBooting) /\ InitSched
    /\ request = NoRequest /\ response = NoResponse
    /\ states = LoadedStates(halState, {"d1"})
    /\ halState["d1"].state = OPEN

\* subscriptions, the runs of scene "s1" that publish, and the handler tasks
NextPublish ==
    \/ \E topic \in {SCENE_TRIGGERED, SCENE_COMPLETED}, handler \in HandlerNames :
          Subscribe(topic, handler)
    \/ \E r \in RunIds : TriggerSceneCall(r, "s1", "manual")
    \/ \E r \in RunIds : TriggerSceneLoaded(r)
    \/ \E r \in RunIds, outcome \in {"ok", "rejected"} : HalResponse(r, outcome)
    \/ \E t \in BagToSet(tasks) : RunHandler(t)

\* the running process: scene "s1" is not persisted, or persisted with a time
\* trigger, active (startup_handler registered it) or not
InitScenes ==
    /\ LET timed == SceneDefinition(<<TimeTrigger(CronMinute1)>>, NoConditions,
                                    <<DeviceControlAction("d1", OPEN)>>)
       IN  \E s1 \in {Scene("s1", timed, TRUE), Scene("s1", timed, FALSE), NoScene} :
              LET stopped == [running |-> FALSE, pendingJobs |-> <<>>,
                              jobStore |-> [j \in {} |-> 0], jobMap |-> [s \in {} |-> 0]]
                  sch == StartScheduler(IF s1 # NoScene /\ s1.is_active
                                        THEN RegisterScene(stopped, s1, "coroutine") ELSE stopped)
              IN  /\ repo = [id \in SceneIds |-> IF id = "s1" THEN s1 ELSE Scene(id, DefGuarded, TRUE)]
                  /\ running = sch.running /\ pendingJobs = sch.pendingJobs
                  /\ jobStore = sch.jobStore /\ jobMap = sch.jobMap
    /\ InitExecWith(WsHandlers, NotBooting)
    /\ states = LoadedStates(halState, {"d1"})
    /\ halState["d1"].state = CLOSED
    /\ now = 0 /\ fired = EmptyBag /\ calls = EmptyBag
    /\ schedOps = 0 /\ lastOp = NoOp
    /\ request = NoRequest /\ response = NoResponse

\* the calls of the scene service on scene "s1", the clock and the callbacks
NextScenes ==
    LET Actions == RawList(<<DeviceControlAction("d1", OPEN)>>)
        Definitions_ == {RawDefinition(RawList(<<TimeTrigger(CronMinute1)>>), RawNoGroup, Actions),
                         RawDefinition(RawList(<<>>), RawNoGroup, Actions),
                         RawDefinition(RawList(<<TimeTrigger(CronMinute1)>>), RawNoGroup, RawAbsent)}
    IN  \/ \E r \in RunIds, data \in Definitions_, is_active \in BOOLEAN :
              CreateScene(r, "s1", data, is_active)
        \/ \E r \in RunIds : CreateSceneSaved(r)
        \/ \E r \in RunIds, data \in Definitions_, is_active \in {<<>>, <<FALSE>>} :
              UpdateScene(r, "s1", data, is_active)
        \/ \E r \in RunIds : UpdateSceneSaved(r)
        \/ \E r \in RunIds : DeleteScene(r, "s1")
        \/ \E r \in RunIds : DeleteSceneDeleted(r)
        \/ \E r \in RunIds, is_active \in BOOLEAN : ActivateScene(r, "s1", is_active)
        \/ \E r \in RunIds : ActivateSceneUpdated(r)
        \/ \E r \in RunIds : TriggerSceneCall(r, "s1", "manual")
        \/ \E r \in RunIds : TriggerSceneLoaded(r)
        \/ \E r \in RunIds : HalResponse(r, "ok")
        \/ Tick
        \/ \E r \in RunIds, f \in BagToSet(calls) : CallbackStart(r, f)

\* concurrent control_device calls on device "d1", and the clock
NextControl ==
    \/ \E c \in StoreClients, cmd \in StateValues : ControlDeviceCall(c, "d1", cmd)
    \/ \E c \in StoreClients, outcome \in HalOutcomes : ControlDeviceAnswer(c, outcome)
    \/ \E c \in StoreClients, ok \in BOOLEAN : ControlDeviceReread(c, ok)
    \/ Tick

\* subscriptions to scene_triggered, removals, the runs of scene "s1" that
\* publish, and the handler tasks
NextSubscribe ==
    \/ \E handler \in HandlerNames : Subscribe(SCENE_TRIGGERED, handler)
    \/ \E topic \in {SCENE_TRIGGERED, SCENE_COMPLETED}, handler \in HandlerNames :
          Unsubscribe(topic, handler)
    \/ \E r \in RunIds : TriggerSceneCall(r, "s1", "manual")
    \/ \E r \in RunIds : TriggerSceneLoaded(r)
    \/ \E r \in RunIds : HalResponse(r, "ok")
    \/ \E t \in BagToSet(tasks) : RunHandler(t)

\* the process as it is constructed, before startup_handler: nothing cached,
\* no subscription, a stopped scheduler; scene "s1" is persisted with a time
\* trigger, active or not, or not persisted
InitStartup ==
    /\ LET timed == SceneDefinition(<<TimeTrigger(CronMinute1)>>, NoConditions,
                                    <<DeviceControlAction("d1", OPEN)>>)
       IN  \E s1 \in {Scene("s1", timed, TRUE), Scene("s1", timed, FALSE), NoScene} :
              repo = [id \in SceneIds |-> IF id = "s1" THEN s1 ELSE Scene(id, DefGuarded, TRUE)]
    /\ InitExecWith(NoHandlers, [NotBooting EXCEPT !.pc = "devices"]) /\ InitSched
    /\ request = NoRequest /\ response = NoResponse
    /\ states = LoadedStates(halState, {})

\* startup_handler; the database holds none, one or both of the devices
NextStartup ==
    \/ \E devices \in {<<>>, <<"d1">>, <<"d1", "d2">>, <<"d2", "d1">>}, ok \in BOOLEAN :
          StartupListDevices(devices, ok)
    \/ \E ok \in BOOLEAN : StartupLoadDevice(ok)
    \/ \E ok \in BOOLEAN : StartupRegisterScenes(ok)
    \/ StartupFinish
    \/ Tick

\* the handler tasks of the event bus
NextBus ==
    \E t \in BagToSet(tasks) : RunHandler(t)

\* the device service
NextDevice ==
    \/ \E d \in Devices, cmd \in StateValues, outcome \in HalOutcomes, readOk \in BOOLEAN :
          ControlDevice(d, cmd, outcome, readOk)
    \/ \E d \in Devices, readOk \in BOOLEAN : SyncDeviceState(d, readOk)

\* the scheduler and the clock
NextSched ==
    \/ Start
    \/ Shutdown
    \/ \E scene \in ScheduledScenes, callback \in Callbacks : Register(scene, callback)
    \/ \E scene_id \in SceneIds : Unregister(scene_id)
    \/ Tick

\* the tasks of fired callbacks
NextCallback ==
    \E r \in RunIds, f \in BagToSet(calls) : CallbackStart(r, f)

\* the process as startup_handler leaves it when scene "s1" is persisted,
\* active, and the state of d1 was loaded
InitAuto ==
    /\ Init
    /\ repo["s1"] = Scene("s1", DefOneControl, TRUE)
    /\ states = LoadedStates(halState, {"d1"})
    /\ halState["d1"].state = OPEN

\* the scheduler with its callbacks, and the runs the API starts;
\* startup_handler registers the persisted scenes with trigger_callback
NextAuto ==
    \/ \E r \in RunIds : TriggerSceneCall(r, "s2", "manual")
    \/ Start
    \/ Shutdown
    \/ \E id \in SceneIds :
          Register(Scene(id, SceneDefinition(<<TimeTrigger(CronMinute1)>>, NoConditions,
                                             <<DeviceControlAction("d1", OPEN)>>), TRUE),
                   "coroutine")
    \/ Tick
    \/ \E r \in RunIds, f \in BagToSet(calls) : CallbackStart(r, f)
    \/ \E r \in RunIds : TriggerSceneLoaded(r)
    \/ \E r \in RunIds, outcome \in {"ok", "error"} : HalResponse(r, outcome)
    \/ \E r \in RunIds : DelayElapsed(r)

\* the process as startup_handler leaves it when scene "s1" is persisted
\* with a time trigger and active: the scheduler runs and holds its job
InitDelay ==
    /\ LET timed == SceneDefinition(<<TimeTrigger(CronMinute1)>>, NoConditions,
                                    <<DeviceControlAction("d1", OPEN)>>)
           stopped == [running |-> FALSE, pendingJobs |-> <<>>,
                       jobStore |-> [j \in {} |-> 0], jobMap |-> [x \in {} |-> 0]]
           sch == StartScheduler(RegisterScene(stopped, Scene("s1", timed, TRUE), "coroutine"))
       IN  /\ repo = [id \in SceneIds |->
                         IF id = "s1" THEN Scene(id, timed, TRUE) ELSE Scene(id, DefGuarded, TRUE)]
           /\ running = sch.running
           /\ pendingJobs = sch.pendingJobs
           /\ jobStore = sch.jobStore
           /\ jobMap = sch.jobMap
    /\ InitExecWith(WsHandlers, NotBooting)
    /\ states = LoadedStates(halState, {"d1"})
    /\ halState["d1"].state = OPEN
    /\ now = 0 /\ fired = EmptyBag /\ calls = EmptyBag /\ schedOps = 0 /\ lastOp = NoOp
    /\ request = NoRequest /\ response = NoResponse

\* the clock and the callbacks it fires, the runs of scene "s2" (which has a
\* delay between its two commands) and calls on the state manager
NextDelay ==
    \/ \E r \in RunIds : TriggerSceneCall(r, "s2", "manual")
    \/ \E r \in RunIds : TriggerSceneLoaded(r)
    \/ \E r \in RunIds, outcome \in {"ok", "error"} : HalResponse(r, outcome)
    \/ \E r \in RunIds : DelayElapsed(r)
    \/ Tick
    \/ \E r \in RunIds, f \in BagToSet(calls) : CallbackStart(r, f)
    \/ \E c \in StoreClients : StoreCall(c, "remove", "d2", <<>>)

Next == NextExec \/ NextBus \/ NextDevice \/ NextSched \/ NextCallback

Spec == Init /\ [][Next]_vars
SpecSched == InitQuiet /\ [][NextSched]_vars
SpecExec == Init /\ [][NextExec]_vars
SpecService == Init /\ [][NextExec \/ NextBus \/ NextDevice]_vars
SpecAuto == InitAuto /\ [][NextAuto]_vars
SpecParser == InitParser /\ [][ParseCall]_vars
SpecEvaluator == InitEvaluator /\ [][EvaluateCall]_vars
SpecStore == InitQuiet /\ [][NextStore]_vars
SpecBus == InitBus /\ [][NextPublish]_vars
SpecDelay == InitDelay /\ [][NextDelay]_vars
SpecStartup == InitStartup /\ [][NextStartup]_vars
SpecSubscribe == InitBus /\ [][NextSubscribe]_vars
SpecControl == InitQuiet /\ [][NextControl]_vars
SpecScenes == InitScenes /\ [][NextScenes]_vars

\* ============================================================== claims
\* what a run's log says about its actions
IsActionEntry(e) == e.kind \in {"command", "response", "sleep", "wake"}
IsCommand(e) == e.kind = "command"
ActionLog(r) == SelectSeq(runs[r].log, IsActionEntry)
Commands(r) == SelectSeq(runs[r].log, IsCommand)
ActionsOf(r) == runs[r].scene.definition.actions
\* the run called execute_scene (it published scene_triggered first)
Entered(r) == runs[r].log # <<>>
\* the HAL call of action i of run r raised
Raised(r, i) == \E p \in 1..Len(runs[r].log) :
    /\ runs[r].log[p].kind = "response"
    /\ runs[r].log[p].idx = i
    /\ HalRaises(runs[r].log[p].outcome)
\* action i of run r ran to its end
Completed(r, i) == \E p \in 1..Len(runs[r].log) :
    /\ runs[r].log[p].idx = i
    /\ \/ runs[r].log[p].kind = "wake"
       \/ runs[r].log[p].kind = "response" /\ ~HalRaises(runs[r].log[p].outcome)
\* the loop of run r came to action i
Reached(r, i) ==
    /\ Entered(r)
    /\ runs[r].condition_met = "true"
    /\ i \in 1..Len(ActionsOf(r))
    /\ \A j \in 1..(i - 1) : Completed(r, j)
\* action i of run r was started
Started(r, i) == \E p \in 1..Len(runs[r].log) :
    runs[r].log[p].idx = i /\ runs[r].log[p].kind \in {"command", "sleep"}
\* the indices of the device_control actions among the first n actions
ControlsUpTo(r, n) == {i \in 1..n : i <= Len(ActionsOf(r)) /\ ActionsOf(r)[i].type = "device_control"}

\* C1: whenever the conditions of a scene evaluate to false, execute_scene
\* returns status=skipped with the message "Conditions not met", the run has
\* sent no command to the HAL and started no action (no delay either), and the
\* step that evaluates them leaves the state store and the HAL as they were.
EvaluatedFalse(r) == runs[r].condition_met = "false"
C1_SkippedWhenConditionsFalse ==
    /\ [](\A r \in RunIds : EvaluatedFalse(r) =>
            /\ runs[r].pc = "done"
            /\ runs[r].status = "skipped"
            /\ runs[r].message.kind = "Conditions not met"
            /\ ActionLog(r) = <<>>)
    /\ [][\A r \in RunIds : (~EvaluatedFalse(r) /\ EvaluatedFalse(r)') =>
            (states' = states /\ halState' = halState)]_vars
C1_Witness ==
    \E r \in RunIds :
        /\ EvaluatedFalse(r)
        /\ runs[r].pc = "done"
        /\ runs[r].scene.definition = DefGuarded
        /\ "d1" \in DOMAIN states

\* C2: when the HAL call of the i-th action raises, or the i-th action is of
\* an unknown type, execute_scene returns status=failed (for a device_control
\* the message names its device), no action after i is started, and the
\* commands sent are those of the device_control actions up to i, once each:
\* nothing is sent to undo them.
FailedAt(r, i) == Raised(r, i) \/ (Reached(r, i) /\ ActionsOf(r)[i].type \notin {"device_control", "delay"})
C2_FailureAbortsWithoutRollback ==
    \A r \in RunIds : \A i \in 1..Len(ActionsOf(r)) : FailedAt(r, i) =>
        /\ runs[r].pc = "done"
        /\ runs[r].status = "failed"
        /\ Raised(r, i) => /\ runs[r].message.kind = "Failed to control device"
                           /\ runs[r].message.device_id = ActionsOf(r)[i].device_id
        /\ ~Raised(r, i) => runs[r].message.kind = "Unknown action type"
        /\ \A j \in 1..Len(ActionsOf(r)) : j > i => ~Started(r, j)
        /\ Len(Commands(r)) = Cardinality(ControlsUpTo(r, i))
        /\ \A p \in 1..Len(Commands(r)) :
              /\ Commands(r)[p].idx \in ControlsUpTo(r, i)
              /\ Commands(r)[p].device_id = ActionsOf(r)[Commands(r)[p].idx].device_id
C2_Witness ==
    \E r \in RunIds :
        /\ Raised(r, 3)
        /\ Completed(r, 1)
        /\ runs[r].status = "failed"

\* C3: execute_scene never lets a fault escape.  A run that called it is
\* either suspended in an action or has a result whose status is success,
\* skipped or failed, and that status is the one its own scene, its own
\* evaluation and the outcomes of its own HAL calls determine: what happens
\* to another run does not enter.
OwnStatus(r) ==
    IF ~ExtractDeviceIds(runs[r].scene).ok THEN "failed"
    ELSE IF runs[r].condition_met = "error" THEN "failed"
    ELSE IF runs[r].condition_met = "false" THEN "skipped"
    ELSE IF \E i \in 1..Len(ActionsOf(r)) : Raised(r, i) THEN "failed"
    ELSE IF \E i \in 1..Len(ActionsOf(r)) : ActionsOf(r)[i].type \notin {"device_control", "delay"}
         THEN "failed"
    ELSE "success"
C3_NoFaultEscapes ==
    \A r \in RunIds : Entered(r) =>
        IF runs[r].pc = "done"
        THEN runs[r].status \in {"success", "skipped", "failed"} /\ runs[r].status = OwnStatus(r)
        ELSE runs[r].pc \in {"hal", "sleep"} /\ runs[r].status = ""
C3_Witness ==
    \E r, q \in RunIds :
        /\ runs[r].pc = "done" /\ runs[r].status = "failed" /\ Raised(r, 1)
        /\ runs[q].pc = "done" /\ runs[q].status = "success" /\ Len(Commands(q)) = 2

\* C4: a HAL answer that reports the command as not applied (control_device
\* returns false) counts as the failure of that action: the run ends with
\* status=failed and starts no action after it.
Rejected(r, i) == \E p \in 1..Len(runs[r].log) :
    /\ runs[r].log[p].kind = "response"
    /\ runs[r].log[p].idx = i
    /\ runs[r].log[p].outcome = "rejected"
C4_RejectedCommandFails ==
    \A r \in RunIds : \A i \in 1..Len(ActionsOf(r)) : Rejected(r, i) =>
        /\ runs[r].pc = "done"
        /\ runs[r].status = "failed"
        /\ \A j \in 1..Len(ActionsOf(r)) : j > i => ~Started(r, j)

\* C5: the actions of one execution run strictly in the order of the
\* definition: the k-th action started is action k, it is started only when
\* action k-1 has come to its end (the HAL answered, the delay elapsed), and
\* so the commands the HAL receives from the run are the device_control
\* actions of the definition, in order; a run that succeeds has run them all.
IsStart(e, a) ==
    \/ e.kind = "command" /\ a.type = "device_control" /\ e.device_id = a.device_id
    \/ e.kind = "sleep" /\ a.type = "delay"
IsEnd(e, start) ==
    \/ e.kind = "response" /\ start.kind = "command"
    \/ e.kind = "wake" /\ start.kind = "sleep"
C5_ActionsInDefinitionOrder ==
    \A r \in RunIds :
        /\ \A p \in 1..Len(ActionLog(r)) :
              LET i == (p + 1) \div 2
              IN  /\ i <= Len(ActionsOf(r))
                  /\ ActionLog(r)[p].idx = i
                  /\ IF p % 2 = 1
                     THEN IsStart(ActionLog(r)[p], ActionsOf(r)[i])
                     ELSE IsEnd(ActionLog(r)[p], ActionLog(r)[p - 1])
        /\ runs[r].status = "success" => Len(ActionLog(r)) = 2 * Len(ActionsOf(r))
C5_Witness ==
    \E r \in RunIds :
        /\ runs[r].status = "success"
        /\ Len(ActionsOf(r)) = 3
        /\ Len(Commands(r)) = 2
        /\ Commands(r)[1].device_id = "d1"
        /\ Commands(r)[2].device_id = "d2"

\* C6: a scene that has no conditions and one device_control action, once
\* executed, always runs the action, and when the HAL call succeeds the
\* run returns status=success with the message "Executed 1 actions", the
\* command having been sent exactly once.
Unconditional(r) ==
    /\ Entered(r)
    /\ runs[r].scene.definition.conditions = NoConditions
    /\ Len(ActionsOf(r)) = 1
    /\ ActionsOf(r)[1].type = "device_control"
    /\ ActionsOf(r)[1].device_id \in Devices
C6_UnconditionalSceneRuns ==
    \A r \in RunIds : Unconditional(r) =>
        /\ Started(r, 1)
        /\ (\E p \in 1..Len(runs[r].log) :
               runs[r].log[p].kind = "response" /\ runs[r].log[p].outcome = "ok")
           => /\ runs[r].status = "success"
              /\ runs[r].message = Message("Executed actions", Missing, 1)
              /\ Len(Commands(r)) = 1

\* C7: after an execution whose device_control succeeded, the caller
\* (trigger_scene) refreshes the state store entry of the device from the
\* HAL before it publishes scene_completed.
C7_RefreshBeforeCompleted ==
    \A r \in RunIds : \A p \in 1..Len(runs[r].log) :
        (runs[r].log[p].kind = "publish" /\ runs[r].log[p].topic = SCENE_COMPLETED) =>
            \A c \in 1..Len(runs[r].log) :
                (runs[r].log[c].kind = "response" /\ runs[r].log[c].outcome = "ok") =>
                    \E q \in (c + 1)..(p - 1) :
                        /\ runs[r].log[q].kind = "set"
                        /\ runs[r].log[q].device_id = runs[r].log[c].device_id

\* C8: a change of a device's cached state is a trigger source: once the
\* handlers of the device_state_changed event have all run, a run exists of
\* every active scene that has a device_state trigger the new state matches.
TriggerMatches(scene, ev) ==
    /\ scene.is_active
    /\ \E i \in 1..Len(scene.definition.triggers) :
          LET tr == scene.definition.triggers[i]
          IN  /\ tr.type = "device_state"
              /\ tr.device_id = ev.device_id
              /\ Compare(ev.state.state, tr.condition.value, tr.condition.operator) = "true"
C8_DeviceStateChangeTriggers ==
    tasks = EmptyBag =>
        \A ev \in changes : \A sid \in SceneIds : TriggerMatches(repo[sid], ev) =>
            \E r \in RunIds : runs[r].pc # "idle" /\ runs[r].scene_id = sid

\* the time triggers of a scene, and those _add_cron_job accepts
TimeTriggers(scene) ==
    {i \in 1..Len(scene.definition.triggers) : scene.definition.triggers[i].type = "time"}
ValidTimeTriggers(scene) ==
    {i \in TimeTriggers(scene) :
        /\ Len(scene.definition.triggers[i].cron) = 5
        /\ ValidCron(scene.definition.triggers[i].cron)}
AllCronsValid(scene) == TimeTriggers(scene) = ValidTimeTriggers(scene)

\* C9: registering a scene that has k time triggers, each with a valid
\* 5-field cron expression, leaves k schedules for the scene, one for each
\* of the expressions.
C9_OneSchedulePerTimeTrigger ==
    (lastOp.op = "register" /\ lastOp.n = 1 /\ AllCronsValid(lastOp.scene)) =>
        /\ Cardinality(Schedules(Sched, lastOp.scene.id)) = Cardinality(TimeTriggers(lastOp.scene))
        /\ \A i \in TimeTriggers(lastOp.scene) :
              \E x \in Schedules(Sched, lastOp.scene.id) :
                  x.cron = lastOp.scene.definition.triggers[i].cron

\* C10: register_scene is idempotent.  After it is called again with the same
\* scene the scheduler holds the schedules the first call left: exactly one
\* for each cron trigger of the scene, and nothing has fired twice at one
\* instant.
C10_RegisterIdempotent ==
    (lastOp.op = "register" /\ lastOp.n >= 2 /\ AllCronsValid(lastOp.scene)) =>
        /\ {x.cron : x \in Schedules(Sched, lastOp.scene.id)} = lastOp.first
        /\ \A i \in TimeTriggers(lastOp.scene) :
              Cardinality({x \in Schedules(Sched, lastOp.scene.id) :
                              x.cron = lastOp.scene.definition.triggers[i].cron}) = 1
        /\ \A f \in BagToSet(fired) : CopiesIn(f, fired) = 1

\* C11: a malformed cron expression makes register_scene skip that time
\* trigger only: after register_scene returned for a scene that has a
\* malformed time trigger, every other (well-formed) time trigger of the
\* scene, before or after the malformed one, has a schedule.
C11_MalformedCronSkipsOnlyItself ==
    (lastOp.op = "register" /\ lastOp.n = 1 /\ ~AllCronsValid(lastOp.scene)) =>
        \A i \in ValidTimeTriggers(lastOp.scene) :
            \E x \in Schedules(Sched, lastOp.scene.id) :
                x.cron = lastOp.scene.definition.triggers[i].cron

\* C12: after unregister_scene(scene_id) returned, whatever the state of the
\* scheduler (not started, running, shut down), scene_id is not among
\* get_scheduled_scenes() and the scheduler holds no schedule of the scene,
\* queued or stored, that could fire its callback later.
C12_UnregisterRemovesScene ==
    lastOp.op = "unregister" =>
        /\ lastOp.scene.id \notin GetScheduledScenes(Sched)
        /\ Schedules(Sched, lastOp.scene.id) = {}

Parsed == request.fn = "parse" /\ response # NoResponse
Accepted == Parsed /\ response.ok
RawItems(data) ==
    IF data.t = "map" /\ data.conditions.t = "map" /\ data.conditions.items.t = "list"
    THEN data.conditions.items.v ELSE <<>>
RawTriggers(data) == IF data.t = "map" /\ data.triggers.t = "list" THEN data.triggers.v ELSE <<>>
RawActions(data) == IF data.t = "map" /\ data.actions.t = "list" THEN data.actions.v ELSE <<>>

\* C14: the parser is the gate for condition types.  A definition that has
\* a condition item of a type the evaluator's factory cannot construct is
\* rejected by parse with SceneDefinitionError, so every definition parse
\* returns holds only items of registered types and no evaluation of it
\* fails on a type tag.
C14_ParserGatesConditionTypes ==
    Parsed =>
        /\ (\E i \in 1..Len(RawItems(request.definition_data)) :
               RawItems(request.definition_data)[i].type \notin Registry)
           => (~response.ok /\ response.error = "SceneDefinitionError")
        /\ response.ok =>
              \A i \in 1..Len(response.definition.conditions.items) :
                  response.definition.conditions.items[i].type \in Registry

\* C19: parse validates every trigger and every action.  A definition parse
\* returns has only triggers tagged device_state (with device_id and
\* condition), time (with a cron of five fields) or manual, and only actions
\* tagged device_control (with device_id and command) or delay (with seconds
\* that are not negative); any other definition is rejected.
WellFormedTrigger(tr) ==
    \/ tr.type = "manual"
    \/ tr.type = "device_state" /\ tr.device_id # Missing /\ tr.condition # NoCond
    \/ tr.type = "time" /\ Len(tr.cron) = 5
WellFormedAction(a) ==
    \/ a.type = "device_control" /\ a.device_id # Missing /\ a.command # None
    \/ a.type = "delay" /\ a.seconds >= 0
C19_ParseValidatesTriggersAndActions ==
    Accepted =>
        /\ \A i \in 1..Len(response.definition.triggers) :
              WellFormedTrigger(response.definition.triggers[i])
        /\ \A i \in 1..Len(response.definition.actions) :
              WellFormedAction(response.definition.actions[i])

\* C20: whatever parse is given, it returns a SceneDefinition or raises
\* SceneDefinitionError and nothing else, also when the input is not a map,
\* when actions is absent or when a field is of the wrong type; a definition
\* whose actions is the empty list is accepted.
C20_ParseRaisesOnlyDefinitionError ==
    Parsed =>
        /\ response.ok \/ response.error = "SceneDefinitionError"
        /\ (/\ request.definition_data.t = "map"
            /\ request.definition_data.triggers = RawList(<<>>)
            /\ request.definition_data.conditions = RawNoGroup
            /\ request.definition_data.actions = RawList(<<>>)) => response.ok

\* what a call of evaluate was given and gave
Evaluated == request.fn = "evaluate" /\ response # NoResponse
IsGroup(condition_data) == condition_data.operator \notin {Missing, "none"}
IsLeaf(condition_data, type) == condition_data.operator = Missing /\ condition_data.type = type

\* C15: a group is evaluated recursively.  Each child, a leaf or a group
\* nested in the group, is evaluated with the context of the group, and the
\* results are folded: all of them under and, any of them under or, false
\* under any other operator.
RECURSIVE GroupValue(_, _, _)
GroupValue(group, ctx, clock) ==
    LET n == Len(group.items)
        results == [i \in 1..n |->
                       IF group.items[i].operator # Missing
                       THEN GroupValue(group.items[i], ctx, clock)
                       ELSE EvaluateItem(group.items[i], ctx, clock)]
    IN  IF \E i \in 1..n : results[i] = "error" THEN "error"
        ELSE IF group.operator = "and"
             THEN (IF \A i \in 1..n : results[i] = "true" THEN "true" ELSE "false")
        ELSE IF group.operator = "or"
             THEN (IF \E i \in 1..n : results[i] = "true" THEN "true" ELSE "false")
        ELSE "false"
C15_GroupsEvaluatedRecursively ==
    (Evaluated /\ IsGroup(request.condition_data)) =>
        response.value = GroupValue(request.condition_data, request.context, request.clock)

\* C16: a scene without conditions is never held back by the condition gate:
\* every finished execution of such a scene had its (absent) conditions
\* evaluated to true and went on to its first action, if it has one.
C16_NoConditionsAlwaysRuns ==
    \A r \in RunIds :
        (Entered(r) /\ runs[r].pc = "done" /\ runs[r].scene.definition.conditions = NoConditions) =>
            /\ runs[r].condition_met = "true"
            /\ runs[r].status # "skipped"
            /\ ActionsOf(r) # <<>> => runs[r].idx >= 1

\* C17: a device_state condition fails closed and never raises: it is false
\* when the context has no state of the device, when the state lacks the
\* attribute, and when the operator is not one of eq, ne, gt, ge, lt, le;
\* otherwise it is true or false as the operator says.
C17_DeviceStateFailsClosed ==
    (Evaluated /\ IsLeaf(request.condition_data, "device_state")) =>
        LET item == request.condition_data
            state == ContextState(request.context, item.device_id)
            actual == IF item.condition.attribute = "state" THEN state.state
                      ELSE state.attributes.brightness
        IN  /\ response.value \in {"true", "false"}
            /\ (\/ state = NoState
                \/ actual = None
                \/ item.condition.operator \notin {"eq", "ne", "gt", "ge", "lt", "le"})
               => response.value = "false"

\* C18: a time_range condition with start <= end is true exactly when
\* start <= now <= end, both ends included; with start > end the range spans
\* midnight and the condition is true exactly when now >= start or
\* now <= end.  22:00-06:00 is true at 23:30 and false at 12:00.
TimeLeq(a, b) ==
    \/ a[1] < b[1]
    \/ a[1] = b[1] /\ a[2] < b[2]
    \/ a[1] = b[1] /\ a[2] = b[2] /\ a[3] <= b[3]
AtMinute(text) == <<text[1], text[2], 0>>
InRange(start, end, now_) ==
    IF TimeLeq(AtMinute(start), AtMinute(end))
    THEN TimeLeq(AtMinute(start), now_) /\ TimeLeq(now_, AtMinute(end))
    ELSE TimeLeq(AtMinute(start), now_) \/ TimeLeq(now_, AtMinute(end))
Overnight == TimeRangeCondition(<<22, 0>>, <<6, 0>>)
C18_TimeRangeWrapsMidnight ==
    (Evaluated /\ IsLeaf(request.condition_data, "time_range")) =>
        /\ response.value =
              (IF InRange(request.condition_data.start, request.condition_data.end, request.clock)
               THEN "true" ELSE "false")
        /\ (request.condition_data = Overnight /\ request.clock = <<23, 30, 0>>)
              => response.value = "true"
        /\ (request.condition_data = Overnight /\ request.clock = <<12, 0, 0>>)
              => response.value = "false"
C18_Witness ==
    /\ request.fn = "evaluate"
    /\ request.condition_data = Overnight
    /\ request.clock = <<23, 30, 0>>
    /\ response = EvaluateReturned("true")

C24_LockNotHeldAcrossSuspension ==
    /\ lock = NoClient
    /\ \A c \in StoreClients : storeCalls[c].pc = "hal" => lock # c

\* a client is suspended on its HAL call and another client's call on the
\* state manager has gone through
C24_Witness ==
    \E c \in StoreClients :
        /\ storeCalls[c].pc = "hal"
        /\ lock = NoClient
        /\ lastStore.n > 0
        /\ lastStore.client \notin {c, NoClient}

\* ------------------------------------------------------------------ C25
\* C25: update_state_attributes on a device without cached state raises
\* StateManagerError and leaves the store as it was; on a cached device it
\* overwrites the given attribute keys only, keeps the state field, the
\* other attributes and every other device, and stamps last_updated.
C25_PatchAttributes ==
    [][(lastStore'.n # lastStore.n /\ lastStore'.op = "patch") =>
          LET d == lastStore'.device_id
              given == lastStore'.arg
          IN  IF d \notin DOMAIN states
              THEN lastStore'.error = "StateManagerError" /\ states' = states
              ELSE /\ lastStore'.error = ""
                   /\ DOMAIN states' = DOMAIN states
                   /\ \A x \in DOMAIN states \ {d} : states'[x] = states[x]
                   /\ states'[d].state = states[d].state
                   /\ states'[d].last_updated = now
                   /\ DOMAIN states'[d].attributes =
                         DOMAIN states[d].attributes \cup DOMAIN given
                   /\ \A k \in DOMAIN states'[d].attributes :
                         states'[d].attributes[k] =
                            IF k \in DOMAIN given THEN given[k] ELSE states[d].attributes[k]]_vars

\* brightness of a cached device has been patched, its colour is the one it
\* was set with, and another device is cached
C25_Witness ==
    /\ lastStore.op = "patch"
    /\ lastStore.error = ""
    /\ lastStore.arg = ("brightness" :> Num(2))
    /\ Devices \subseteq DOMAIN states
    /\ states[lastStore.device_id].attributes = ("brightness" :> Num(2)) @@ ("color" :> Str(0))
    /\ states[lastStore.device_id].last_updated = now
    /\ now > 0

\* ------------------------------------------------------------------ C26
\* what a holder of a map of states sees of it: the keys, and each
\* device's state and attributes
View(map) == [d \in DOMAIN map |-> <<map[d].state, map[d].attributes>>]

\* C26: the map returned by get_all_states is a snapshot: no later call on
\* the state manager changes its keys or the state or attributes of a
\* device seen through it.
C26_AllReturnsSnapshot ==
    [][(snapshot.taken /\ lastStore'.op # "all") => View(snapshot'.map) = View(snapshot.map)]_vars

\* ------------------------------------------------------------------ C27
\* C27: set_state stores the state with last_updated at the time of the
\* call, whatever the caller put there, and neither set_state nor
\* update_state_attributes moves the last_updated of a device backwards.
C27_SetStampsLastUpdated ==
    [][(lastStore'.n # lastStore.n /\ lastStore'.op \in {"set", "patch"} /\ lastStore'.error = "") =>
          LET d == lastStore'.device_id
          IN  /\ states'[d].last_updated = now
              /\ d \in DOMAIN states => states'[d].last_updated >= states[d].last_updated
              /\ \A x \in DOMAIN states' : states'[x].last_updated <= now]_vars

\* a state handed over with a last_updated in the future has been stored over
\* an earlier one of the device and carries the time of the call
C27_Witness ==
    /\ lastStore.op = "set"
    /\ lastStore.n >= 2
    /\ lastStore.arg.last_updated > now
    /\ now > 0
    /\ states[lastStore.device_id].last_updated = now

\* ------------------------------------------------------------------ C22
\* the events a step of run r published: the publish entries its log gained
Published(r) ==
    IF Len(runs'[r].log) > Len(runs[r].log)
    THEN SelectSeq(SubSeq(runs'[r].log, Len(runs[r].log) + 1, Len(runs'[r].log)),
                   LAMBDA e : e.kind = "publish")
    ELSE <<>>

\* C22: a publish on a topic with n handlers subscribed at that moment
\* creates n handler tasks with the event, none of which has run when the
\* publisher goes on; with no handler it creates none.
C22_PublishSchedulesAndReturns ==
    [][\A r \in RunIds :
          LET pubs == Published(r)
              Created(t) == Cardinality({<<j, i>> \in (1..Len(pubs)) \X (1..MaxSubscriptions) :
                                            /\ pubs[j] = t.event
                                            /\ i <= Len(handlers[pubs[j].topic])
                                            /\ handlers[pubs[j].topic][i] = t.handler})
          IN  pubs # <<>> =>
                 \A t \in BagToSet(tasks) \cup BagToSet(tasks')
                          \cup {Task(h, pubs[j]) : h \in HandlerNames, j \in 1..Len(pubs)} :
                    CopiesIn(t, tasks') = CopiesIn(t, tasks) + Created(t)]_vars

\* a run has ended with success while the two tasks of its scene_triggered
\* event (the handler was subscribed twice) are still to run; its
\* scene_completed event went to a topic without handlers and created none
C22_Witness ==
    \E r \in RunIds :
        /\ runs[r].pc = "done"
        /\ runs[r].status = "success"
        /\ \E i, j \in 1..Len(runs[r].log) :
              /\ runs[r].log[i].kind = "publish" /\ runs[r].log[i].topic = SCENE_TRIGGERED
              /\ runs[r].log[j].kind = "publish" /\ runs[r].log[j].topic = SCENE_COMPLETED
              /\ CopiesIn(Task("ws", runs[r].log[i]), tasks) = 2
              /\ CopiesIn(Task("ws", runs[r].log[j]), tasks) = 0
              /\ handlers[SCENE_COMPLETED] = <<>>

\* ------------------------------------------------------------------ C23
\* C23: when the task of a handler that raises ends, nothing else changes:
\* the publisher's run is as it was and every other handler task of the
\* event is still there to run.
C23_HandlerFaultsIsolated ==
    [][\A t \in BagToSet(tasks) :
          (t.handler = "bad" /\ CopiesIn(t, tasks') < CopiesIn(t, tasks)) =>
             /\ runs' = runs
             /\ handlers' = handlers
             /\ CopiesIn(t, tasks') = CopiesIn(t, tasks) - 1
             /\ \A u \in BagToSet(tasks) \ {t} : CopiesIn(u, tasks') = CopiesIn(u, tasks)]_vars

\* the handler that raises was subscribed before the WebSocket handler; its
\* task for the scene_triggered event of a run has ended, the other
\* handler's task for that event is still to run and the run succeeded
C23_Witness ==
    \E r \in RunIds :
        /\ runs[r].pc = "done"
        /\ runs[r].status = "success"
        /\ handlers[SCENE_TRIGGERED] = <<"bad", "ws">>
        /\ \E i \in 1..Len(runs[r].log) :
              /\ runs[r].log[i].kind = "publish" /\ runs[r].log[i].topic = SCENE_TRIGGERED
              /\ CopiesIn(Task("ws", runs[r].log[i]), tasks) = 1
              /\ CopiesIn(Task("bad", runs[r].log[i]), tasks) = 0

\* ------------------------------------------------------------------ C28
\* C28: the store is empty when startup begins; startup asks the HAL for
\* each persisted device once; when it completes the store holds a state
\* for exactly the devices the HAL answered for, the active scenes with a
\* time trigger are scheduled and the scheduler runs; a failure of the HAL
\* never ends startup.
C28_StartupLoadsStates ==
    /\ boot.pc = "devices" => DOMAIN states = {}
    /\ boot.pc \in {"loading", "scenes", "done"} =>
          /\ Len(boot.queried) <= Len(boot.devices)
          /\ boot.queried = SubSeq(boot.devices, 1, Len(boot.queried))
          /\ DOMAIN states = boot.loaded
    /\ boot.pc \in {"scenes", "done"} =>
          /\ boot.queried = boot.devices
          /\ \A id \in SceneIds :
                (repo[id] # NoScene /\ repo[id].is_active /\ ValidTimeTriggers(repo[id]) # {})
                   => Schedules(Sched, id) # {}
    /\ boot.pc = "done" => running /\ pendingJobs = <<>>
    /\ boot.pc = "failed" => boot.cause = "database"

\* startup has completed although the HAL failed for the first of two
\* devices: the second device alone is cached, the scene is scheduled and
\* the scheduler runs
C28_Witness ==
    /\ boot.pc = "done"
    /\ boot.devices = <<"d1", "d2">>
    /\ boot.queried = <<"d1", "d2">>
    /\ DOMAIN states = {"d2"}
    /\ running
    /\ "s1" \in DOMAIN jobMap
    /\ Schedules(Sched, "s1") # {}

\* ------------------------------------------------------------------ C29
\* C29: executions of one scene do not exclude each other: whatever the
\* other executions are doing, those of the same scene included, a trigger
\* of any scene is accepted as long as the process can take one more run.
C29_NoExclusionPerScene ==
    \A r \in RunIds :
        FreeRun(r) => \A sid \in SceneIds : ENABLED TriggerSceneCall(r, sid, "manual")

\* two executions of scene "s2", which has three actions: one is past its
\* first action and waits in the delay, the other awaits the HAL's answer to
\* its first command
C29_Witness ==
    \E r, q \in RunIds :
        /\ r # q
        /\ runs[r].scene_id = "s2" /\ runs[q].scene_id = "s2"
        /\ runs[r].pc = "sleep" /\ runs[r].idx = 2
        /\ runs[q].pc = "hal" /\ runs[q].idx = 1
        /\ Len(ActionsOf(r)) = 3
        /\ Len(Commands(r)) = 1
        /\ Len(Commands(q)) = 1

\* ------------------------------------------------------------------ C30
\* C30: while an execution waits in a delay action it holds no lock and
\* nothing else waits for it: the clock can advance and fire schedules, a
\* call on the state manager goes through, a trigger or a fired callback
\* can start an execution and an execution that awaits the HAL gets its
\* answer.
C30_DelaySuspendsOnlyItsRun ==
    (\E r \in RunIds : runs[r].pc = "sleep") =>
        /\ lock = NoClient
        /\ now < MaxTime => ENABLED Tick
        /\ StoreOps < MaxStoreOps =>
              ENABLED (\E c \in StoreClients : StoreCall(c, "remove", "d2", <<>>))
        /\ \A q \in RunIds :
              /\ (FreeRun(q) /\ calls # EmptyBag) =>
                    \A f \in BagToSet(calls) : ENABLED CallbackStart(q, f)
              /\ FreeRun(q) => ENABLED TriggerSceneCall(q, "s2", "manual")
              /\ runs[q].pc = "hal" => ENABLED HalResponse(q, "ok")

\* an execution waits in its delay; an execution started after it has run to
\* its end, the clock has fired schedules and a call on the state manager
\* has gone through
C30_Witness ==
    \E r, q \in RunIds :
        /\ r < q
        /\ runs[r].pc = "sleep"
        /\ runs[q].pc = "done" /\ runs[q].status = "success"
        /\ Len(Commands(q)) >= 1
        /\ fired # EmptyBag
        /\ lastStore.n > 0
        /\ lock = NoClient



\* ------------------------------------------------------------------ C31
\* how many times run r published on a topic
PublishCount(r, topic) ==
    Len(SelectSeq(runs[r].log, LAMBDA e : e.kind = "publish" /\ e.topic = topic))
\* trigger_scene of run r found its scene persisted and active
LoadedActive(r) ==
    /\ runs[r].pc \notin {"idle", "loading"}
    /\ runs[r].scene # NoScene
    /\ runs[r].scene.is_active

\* C31: a run of trigger_scene on an existing active scene publishes
\* scene_triggered exactly once, before anything the executor does; while
\* the executor has not returned it publishes no outcome; once the executor
\* returned it has published scene_completed once exactly when the status is
\* success, scene_failed once exactly when the status is failed, nothing
\* when the status is skipped, and the outcome event is the last thing it did.
C31_TriggeredThenOneOutcome ==
    \A r \in RunIds : LoadedActive(r) =>
        LET log == runs[r].log
            nCompleted == PublishCount(r, SCENE_COMPLETED)
            nFailed == PublishCount(r, SCENE_FAILED)
        IN  /\ log # <<>>
            /\ log[1].kind = "publish" /\ log[1].topic = SCENE_TRIGGERED
            /\ log[1].scene_id = runs[r].scene_id /\ log[1].outcome = runs[r].by
            /\ PublishCount(r, SCENE_TRIGGERED) = 1
            /\ runs[r].pc # "done" => nCompleted = 0 /\ nFailed = 0
            /\ runs[r].pc = "done" =>
                  /\ runs[r].status \in {"success", "failed", "skipped"}
                  /\ nCompleted = (IF runs[r].status = "success" THEN 1 ELSE 0)
                  /\ nFailed = (IF runs[r].status = "failed" THEN 1 ELSE 0)
                  /\ nCompleted + nFailed = 1 =>
                        /\ log[Len(log)].kind = "publish"
                        /\ log[Len(log)].topic \in {SCENE_COMPLETED, SCENE_FAILED}
                        /\ log[Len(log)].outcome = runs[r].status

\* one run ended with success after a command and published scene_completed
\* last; another was skipped by its conditions and published scene_triggered
\* only
C31_Witness ==
    \E r, q \in RunIds :
        /\ LoadedActive(r) /\ runs[r].pc = "done" /\ runs[r].status = "success"
        /\ Len(Commands(r)) >= 1
        /\ runs[r].log[Len(runs[r].log)].topic = SCENE_COMPLETED
        /\ LoadedActive(q) /\ runs[q].pc = "done" /\ runs[q].status = "skipped"
        /\ Len(runs[q].log) = 1

\* ------------------------------------------------------------------ C35
\* C35: after register_scene returned for a scene whose definition has no
\* time trigger, or only time triggers with a malformed cron expression, the
\* scene id is not among get_scheduled_scenes() and the scheduler holds no
\* schedule of the scene, queued or stored, left by an earlier registration.
C35_ReregisterReplacesSchedule ==
    (lastOp.op = "register" /\ ValidTimeTriggers(lastOp.scene) = {}) =>
        /\ lastOp.scene.id \notin GetScheduledScenes(Sched)
        /\ Schedules(Sched, lastOp.scene.id) = {}

\* ------------------------------------------------------------------ C38
\* how many times a handler is in a list of handlers
Occurrences(list, handler) == Cardinality({i \in 1..Len(list) : list[i] = handler})
\* the number of subscriptions of the bus
Subscriptions(h) ==
    Len(h[SCENE_TRIGGERED]) + Len(h[SCENE_COMPLETED]) + Len(h[SCENE_FAILED]) + Len(h[DEVICE_STATE_CHANGED])

\* C38: the bus keeps a multiset of handlers for each topic.  A publish
\* creates, for each handler, as many tasks as the handler has subscriptions
\* to the topic at that moment.  An unsubscribe is accepted in every state;
\* it removes one occurrence of the handler from the topic and nothing else,
\* and it changes nothing at all when the handler is not subscribed to the
\* topic.  Neither an unsubscribe nor a subscribe touches the tasks already
\* created: an event published before still reaches the handler that was
\* removed and does not reach the handler that was added.
C38_HandlersAreMultiset ==
    /\ [](\A topic \in Topics, handler \in HandlerNames :
            /\ ENABLED Unsubscribe(topic, handler)
            /\ Occurrences(handlers[topic], handler) = 0 =>
                  ~ENABLED (Unsubscribe(topic, handler) /\ handlers' # handlers))
    /\ [][/\ \A r \in RunIds : \A j \in 1..Len(Published(r)) : \A handler \in HandlerNames :
                LET ev == Published(r)[j]
                IN  CopiesIn(Task(handler, ev), tasks') - CopiesIn(Task(handler, ev), tasks)
                       = Occurrences(handlers[ev.topic], handler)
          /\ Subscriptions(handlers') < Subscriptions(handlers) =>
                /\ tasks' = tasks /\ runs' = runs
                /\ \E topic \in Topics, handler \in HandlerNames :
                      /\ Occurrences(handlers'[topic], handler) = Occurrences(handlers[topic], handler) - 1
                      /\ \A t \in Topics, h \in HandlerNames :
                            <<t, h>> # <<topic, handler>> =>
                               Occurrences(handlers'[t], h) = Occurrences(handlers[t], h)
          /\ Subscriptions(handlers') > Subscriptions(handlers) =>
                tasks' = tasks /\ runs' = runs]_vars

\* "ws" was subscribed twice to scene_triggered, a run published its event,
\* then one subscription of "ws" was removed and "bad" was subscribed: both
\* tasks of "ws" for the event are still there and "bad" has none
C38_Witness ==
    \E r \in RunIds :
        /\ Entered(r)
        /\ handlers[SCENE_TRIGGERED] = <<"ws", "bad">>
        /\ CopiesIn(Task("ws", runs[r].log[1]), tasks) = 2
        /\ CopiesIn(Task("bad", runs[r].log[1]), tasks) = 0

\* ------------------------------------------------------------------ C37
\* the handler tasks a step created
NewTasks == {t \in BagToSet(tasks') : CopiesIn(t, tasks') > CopiesIn(t, tasks)}

\* C37: control_device keeps the cache and the events consistent.  The step
\* in which the HAL accepts the command, returns false or raises changes
\* neither the StateManager nor the handler tasks.  The step that ends the
\* re-read either raised and changes neither, or it puts the state the HAL
\* has at that moment in the StateManager's entry of the device, changes no
\* other entry, and publishes one device_state_changed event of the device
\* that carries exactly the entry now stored.
C37_ControlKeepsCacheAndEventsConsistent ==
    [][\A c \in StoreClients :
          LET d == storeCalls[c].device_id
          IN  /\ storeCalls[c].pc = "command" /\ storeCalls'[c].pc # "command" =>
                    /\ states' = states /\ tasks' = tasks
                    /\ storeCalls'[c].pc = "reread" => halState'[d].state = storeCalls[c].command
              /\ storeCalls[c].pc = "reread" /\ storeCalls'[c].pc # "reread" =>
                    \/ states' = states /\ tasks' = tasks
                    \/ /\ d \in DOMAIN states'
                       /\ states'[d].state = halState[d].state
                       /\ \A x \in DOMAIN states \ {d} : x \in DOMAIN states' /\ states'[x] = states[x]
                       /\ DOMAIN states' \subseteq DOMAIN states \cup {d}
                       /\ NewTasks # {}
                       /\ \A t \in NewTasks :
                             /\ t.event.topic = DEVICE_STATE_CHANGED
                             /\ t.event.device_id = d
                             /\ t.event.state = states'[d]
                             /\ CopiesIn(t, tasks') = CopiesIn(t, tasks) + 1]_vars

\* two calls were under way at once: the store holds the state of the later
\* re-read, CLOSED, and the events of both re-reads were published, one with
\* OPEN and one with the stored entry
C37_Witness ==
    /\ "d1" \in DOMAIN states
    /\ states["d1"].state = CLOSED
    /\ lastStore.n = 2
    /\ \A c \in StoreClients : storeCalls[c].pc = "idle"
    /\ \E t, u \in BagToSet(tasks) :
          /\ t.event.state = states["d1"]
          /\ u.event.state.state = OPEN
          /\ u.event.state.oid[2] = t.event.state.oid[2] - 1
          /\ u.event.state.oid[1] # t.event.state.oid[1]

\* ------------------------------------------------------------------ C32
\* the scene is persisted and active
PersistedActive(scene_id) == repo[scene_id] # NoScene /\ repo[scene_id].is_active

\* C32: every firing of a time trigger of a persisted active scene, whether
\* a method of the scene service registered it or startup did, starts the
\* task of its callback, and the trigger_scene that task calls publishes
\* scene_triggered and goes on to the executor.
C32_FiringRunsTriggerScene ==
    [][/\ \A f \in BagToSet(fired') :
             (CopiesIn(f, fired') > CopiesIn(f, fired) /\ PersistedActive(f.scene_id)) =>
                CopiesIn(f, calls') > CopiesIn(f, calls)
       /\ \A r \in RunIds :
             (/\ runs[r].pc = "idle"
              /\ runs'[r].by = "auto"
              /\ PersistedActive(runs'[r].scene_id)) =>
                /\ runs'[r].log # <<>>
                /\ runs'[r].log[1].kind = "publish"
                /\ runs'[r].log[1].topic = SCENE_TRIGGERED]_vars

\* ------------------------------------------------------------------ C33
\* C33: when trigger_scene, called by the API or by a scheduled callback,
\* gets to the scene and the persisted scene is inactive at that moment, it
\* ends there with status skipped: it has published nothing, sent nothing to
\* the HAL and created no handler task.
C33_InactiveSceneIsSkipped ==
    [][\A r \in RunIds :
          (/\ runs[r].pc \in {"idle", "loading"}
           /\ runs'[r].pc \notin {"idle", "loading"}
           /\ runs'[r].by \in {"manual", "auto"}
           /\ repo[runs'[r].scene_id] # NoScene
           /\ ~repo[runs'[r].scene_id].is_active) =>
             /\ runs'[r].pc = "done"
             /\ runs'[r].status = "skipped"
             /\ runs'[r].log = <<>>
             /\ halState' = halState
             /\ tasks' = tasks]_vars

\* ------------------------------------------------------------------ C34
\* a create_scene, update_scene, delete_scene or activate_scene is under way
SceneCallInProgress == \E r \in RunIds : runs[r].pc \in {"saving", "deleting", "updating"}

\* C34: whenever no create_scene, update_scene, delete_scene or
\* activate_scene is under way, every scene id the scheduler lists belongs
\* to a persisted scene whose is_active is true.
C34_ScheduledScenesAreActive ==
    ~SceneCallInProgress =>
        \A scene_id \in GetScheduledScenes(Sched) : PersistedActive(scene_id)

\* ------------------------------------------------------------------ C36
\* C36: the step in which create_scene or update_scene raises
\* SceneDefinitionError changes neither the persisted scenes nor the
\* scheduler (its jobs, its map, what has fired), and the call has published
\* nothing.
C36_InvalidDefinitionChangesNothing ==
    [][\A r \in RunIds :
          (/\ runs[r].pc = "idle"
           /\ runs'[r].by \in {"create", "update"}
           /\ runs'[r].status = "raised"
           /\ runs'[r].message.kind = "SceneDefinitionError") =>
             /\ runs'[r].pc = "done"
             /\ runs'[r].log = <<>>
             /\ repo' = repo
             /\ Sched' = Sched
             /\ fired' = fired /\ calls' = calls /\ tasks' = tasks]_vars

\* an update_scene and a create_scene of the persisted, active and scheduled
\* scene "s1" have raised SceneDefinitionError; the job of "s1" is still
\* stored and has fired
C36_Witness ==
    /\ \E r, q \in RunIds :
          /\ runs[r].by = "update" /\ runs[r].message.kind = "SceneDefinitionError"
          /\ runs[q].by = "create" /\ runs[q].message.kind = "SceneDefinitionError"
    /\ PersistedActive("s1")
    /\ "s1" \in GetScheduledScenes(Sched)
    /\ Schedules(Sched, "s1") # {}
    /\ \E f \in BagToSet(fired) : f.scene_id = "s1" /\ f.at = now

====
